---- MODULE Spec2Model ----
(***************************************************************************)
(* GLM-PCA (saroudant/Percolate): the GLMPCA estimator of src/GLMPCA.py    *)
(* and the exponential-family dispatch of src/exponential_family.py.       *)
(*                                                                         *)
(* Four specifications share the variables below; each leaves the          *)
(* variables of the other three at their initial value:                    *)
(*   SpecFam    the string-keyed family dispatch and the call of what it   *)
(*              returns                                                    *)
(*   SpecFit    the loading fit with its divergence restarts (FairFit adds *)
(*              the fairness of a running interpreter)                     *)
(*   SpecStore  save and load against a folder                             *)
(*   SpecParams compute_saturated_params and the operations that call it   *)
(*                                                                         *)
(* Python strings are sequences of one-character strings, so that          *)
(* str.lower() is computed character by character.                         *)
(***************************************************************************)
EXTENDS Integers, Sequences, FiniteSets, TLC

\* ------------------------------------------------------------------ strings
LowerLetters == <<"a","b","c","d","e","f","g","h","i","j","k","l","m","n","o","p","q","r","s","t","u","v","w","x","y","z">>

UpperLetters == <<"A","B","C","D","E","F","G","H","I","J","K","L","M","N","O","P","Q","R","S","T","U","V","W","X","Y","Z">>

\* str.lower() on one character: an upper-case letter becomes its lower-case
\* letter, every other character is kept.
ToLower == [c \in {UpperLetters[i] : i \in 1..Len(UpperLetters)} |->
               LowerLetters[CHOOSE i \in 1..Len(UpperLetters) : UpperLetters[i] = c]]

LowerChar(c) == IF c \in DOMAIN ToLower THEN ToLower[c] ELSE c

Lower(s) == [i \in 1..Len(s) |-> LowerChar(s[i])]

\* str.upper() on one character, used to build the inputs.
ToUpper == [c \in {LowerLetters[i] : i \in 1..Len(LowerLetters)} |->
               UpperLetters[CHOOSE i \in 1..Len(LowerLetters) : LowerLetters[i] = c]]

UpperChar(c) == IF c \in DOMAIN ToUpper THEN ToUpper[c] ELSE c

Upper(s) == [i \in 1..Len(s) |-> UpperChar(s[i])]

Capitalize(s) == [i \in 1..Len(s) |-> IF i = 1 THEN UpperChar(s[i]) ELSE s[i]]

\* The family names the source compares against.
S_bernoulli == <<"b", "e", "r", "n", "o", "u", "l", "l", "i">>

S_continuous_bernoulli == <<"c", "o", "n", "t", "i", "n", "u", "o", "u", "s", "_", "b", "e", "r", "n", "o", "u", "l", "l", "i">>

S_poisson == <<"p", "o", "i", "s", "s", "o", "n">>

S_gaussian == <<"g", "a", "u", "s", "s", "i", "a", "n">>

S_multinomial == <<"m", "u", "l", "t", "i", "n", "o", "m", "i", "a", "l">>

S_negative_binomial == <<"n", "e", "g", "a", "t", "i", "v", "e", "_", "b", "i", "n", "o", "m", "i", "a", "l">>

S_nb == <<"n", "b">>

S_negative_binomial_reparam == <<"n", "e", "g", "a", "t", "i", "v", "e", "_", "b", "i", "n", "o", "m", "i", "a", "l", "_", "r", "e", "p", "a", "r", "a", "m">>

S_nb_rep == <<"n", "b", "_", "r", "e", "p">>

S_beta == <<"b", "e", "t", "a">>

S_beta_reparam == <<"b", "e", "t", "a", "_", "r", "e", "p", "a", "r", "a", "m">>

S_beta_rep == <<"b", "e", "t", "a", "_", "r", "e", "p">>

S_log_normal == <<"l", "o", "g", "_", "n", "o", "r", "m", "a", "l">>

S_log_sp_normal == <<"l", "o", "g", " ", "n", "o", "r", "m", "a", "l">>

S_lognorm == <<"l", "o", "g", "n", "o", "r", "m">>

S_gamma == <<"g", "a", "m", "m", "a">>

S_NA == <<"N", "A">>

NBFamilies == {S_negative_binomial, S_nb, S_negative_binomial_reparam, S_nb_rep}

\* Every alias a branch of the dispatch functions names.
FamilyAliases ==
    {S_bernoulli, S_continuous_bernoulli, S_poisson, S_gaussian, S_multinomial,
     S_negative_binomial, S_nb, S_negative_binomial_reparam, S_nb_rep, S_beta,
     S_beta_reparam, S_beta_rep, S_log_normal, S_log_sp_normal, S_lognorm, S_gamma}

\* The family strings a caller passes: each alias in lower case, capitalised
\* and in upper case, and a name no branch knows.
FamilyInputs ==
    FamilyAliases \cup {Capitalize(s) : s \in FamilyAliases}
                  \cup {Upper(s) : s \in FamilyAliases} \cup {S_NA, Lower(S_NA)}

\* ----------------------------------------------------------- family dispatch
\* A dispatch function returns the name of a family function, "None" when no
\* branch matches (the function body ends without a return), or raises.
RaiseNotImplemented == "raise NotImplementedError"

\* An exception object handed back with `return` instead of `raise`.
NotImplementedInstance == "NotImplementedError instance"

expt_term(family) ==
    IF family = S_bernoulli THEN "expt_bernoulli"
    ELSE IF family = S_continuous_bernoulli THEN "expt_continuous_bernoulli"
    ELSE IF family = S_poisson THEN "expt_poisson"
    ELSE IF family = S_gaussian THEN "expt_gaussian"
    ELSE IF family = S_multinomial THEN "expt_multinomial"
    ELSE IF Lower(family) \in {S_negative_binomial, S_nb} THEN "expt_negative_binomial"
    ELSE IF Lower(family) \in {S_negative_binomial_reparam, S_nb_rep}
         THEN "expt_negative_binomial_reparametrized"
    ELSE IF Lower(family) \in {S_beta} THEN "expt_beta"
    ELSE IF Lower(family) \in {S_beta_reparam, S_beta_rep} THEN "expt_beta_reparametrized"
    ELSE IF Lower(family) \in {S_log_normal, S_log_sp_normal, S_lognorm} THEN "expt_log_normal"
    ELSE IF Lower(family) \in {S_gamma} THEN "expt_gamma"
    ELSE "None"

G_fun(family) ==
    IF family = S_bernoulli THEN "G_bernoulli"
    ELSE IF family = S_continuous_bernoulli THEN "G_continuous_bernoulli"
    ELSE IF family = S_poisson THEN "G_poisson"
    ELSE IF family = S_gaussian THEN "G_gaussian"
    ELSE IF family = S_multinomial THEN "G_multinomial"
    ELSE IF Lower(family) \in {S_negative_binomial, S_nb} THEN "G_negative_binomial"
    ELSE IF Lower(family) \in {S_negative_binomial_reparam, S_nb_rep}
         THEN "G_negative_binomial_reparametrized"
    ELSE IF Lower(family) \in {S_beta} THEN "G_beta"
    ELSE IF Lower(family) \in {S_beta_reparam, S_beta_rep} THEN "G_beta_reparametrized"
    ELSE IF Lower(family) \in {S_log_normal, S_log_sp_normal, S_lognorm} THEN "G_log_normal"
    ELSE IF Lower(family) \in {S_gamma} THEN "G_gamma"
    ELSE "None"

\* Mutant: the multinomial branch hands back G_grad_multinomial.
G_grad_fun_Returning(family) ==
    IF family = S_bernoulli THEN "G_grad_bernoulli"
    ELSE IF family = S_continuous_bernoulli THEN "G_grad_continuous_bernoulli"
    ELSE IF family = S_poisson THEN "G_grad_poisson"
    ELSE IF family = S_gaussian THEN "G_grad_gaussian"
    ELSE IF family = S_multinomial THEN "G_grad_multinomial"
    ELSE IF Lower(family) \in {S_negative_binomial, S_nb} THEN "G_grad_negative_binomial"
    ELSE IF Lower(family) \in {S_negative_binomial_reparam, S_nb_rep}
         THEN "G_grad_negative_binomial_reparametrized"
    ELSE IF Lower(family) \in {S_beta} THEN "G_grad_beta"
    ELSE IF Lower(family) \in {S_beta_reparam, S_beta_rep} THEN "G_grad_beta_reparametrized"
    ELSE IF Lower(family) \in {S_log_normal, S_log_sp_normal, S_lognorm} THEN "G_grad_log_norm"
    ELSE IF Lower(family) \in {S_gamma} THEN "G_grad_gamma"
    ELSE "None"

G_grad_fun(family) ==
    IF family = S_bernoulli THEN "G_grad_bernoulli"
    ELSE IF family = S_continuous_bernoulli THEN "G_grad_continuous_bernoulli"
    ELSE IF family = S_poisson THEN "G_grad_poisson"
    ELSE IF family = S_gaussian THEN "G_grad_gaussian"
    ELSE IF family = S_multinomial THEN RaiseNotImplemented
    ELSE IF Lower(family) \in {S_negative_binomial, S_nb} THEN "G_grad_negative_binomial"
    ELSE IF Lower(family) \in {S_negative_binomial_reparam, S_nb_rep}
         THEN "G_grad_negative_binomial_reparametrized"
    ELSE IF Lower(family) \in {S_beta} THEN "G_grad_beta"
    ELSE IF Lower(family) \in {S_beta_reparam, S_beta_rep} THEN "G_grad_beta_reparametrized"
    ELSE IF Lower(family) \in {S_log_normal, S_log_sp_normal, S_lognorm} THEN "G_grad_log_norm"
    ELSE IF Lower(family) \in {S_gamma} THEN "G_grad_gamma"
    ELSE "None"

\* The first test of g_invertfun is an `if` of its own and the second starts a
\* new chain; each branch returns, so the result is that of one chain.
g_invertfun(family) ==
    IF family = S_bernoulli THEN "g_invert_bernoulli"
    ELSE IF family = S_continuous_bernoulli THEN "g_invert_continuous_bernoulli"
    ELSE IF family = S_poisson THEN "g_invert_poisson"
    ELSE IF family = S_gaussian THEN "g_invert_gaussian"
    ELSE IF family = S_multinomial THEN RaiseNotImplemented
    ELSE IF Lower(family) \in {S_negative_binomial, S_nb} THEN "g_invert_negative_binomial"
    ELSE IF Lower(family) \in {S_negative_binomial_reparam, S_nb_rep}
         THEN "g_invert_negative_binomial_reparametrized"
    ELSE IF Lower(family) \in {S_beta} THEN "g_invert_beta"
    ELSE IF Lower(family) \in {S_beta_reparam, S_beta_rep} THEN "g_invert_beta_reparametrized"
    ELSE IF Lower(family) \in {S_log_normal, S_log_sp_normal, S_lognorm} THEN "g_invert_log_normal"
    ELSE IF Lower(family) \in {S_gamma} THEN "g_invert_gamma"
    ELSE "None"

\* Mutant: h_fun ends with an else branch that raises.
h_fun_Raising(family) ==
    IF family = S_bernoulli THEN "h_bernoulli"
    ELSE IF family = S_continuous_bernoulli THEN "h_continuous_bernoulli"
    ELSE IF family = S_poisson THEN "h_poisson"
    ELSE IF family = S_gaussian THEN "h_gaussian"
    ELSE IF family = S_multinomial THEN RaiseNotImplemented
    ELSE IF Lower(family) \in NBFamilies THEN "h_negative_binomial"
    ELSE IF Lower(family) \in {S_log_normal, S_log_sp_normal, S_lognorm} THEN "h_log_norm"
    ELSE IF Lower(family) \in {S_gamma} THEN "h_gamma"
    ELSE RaiseNotImplemented

h_fun(family) ==
    IF family = S_bernoulli THEN "h_bernoulli"
    ELSE IF family = S_continuous_bernoulli THEN "h_continuous_bernoulli"
    ELSE IF family = S_poisson THEN "h_poisson"
    ELSE IF family = S_gaussian THEN "h_gaussian"
    ELSE IF family = S_multinomial THEN RaiseNotImplemented
    ELSE IF Lower(family) \in NBFamilies THEN "h_negative_binomial"
    ELSE IF Lower(family) \in {S_log_normal, S_log_sp_normal, S_lognorm} THEN "h_log_norm"
    ELSE IF Lower(family) \in {S_gamma} THEN "h_gamma"
    ELSE "None"

log_h_fun(family) ==
    IF family = S_bernoulli THEN NotImplementedInstance
    ELSE IF family = S_continuous_bernoulli THEN NotImplementedInstance
    ELSE IF family = S_poisson THEN NotImplementedInstance
    ELSE IF family = S_gaussian THEN NotImplementedInstance
    ELSE IF family = S_multinomial THEN RaiseNotImplemented
    ELSE IF Lower(family) \in NBFamilies THEN "log_h_negative_binomial"
    ELSE IF Lower(family) \in {S_gamma} THEN "log_h_gamma"
    ELSE "None"

Dispatchers == {"expt_term", "G_fun", "G_grad_fun", "g_invertfun", "h_fun", "log_h_fun"}

Dispatch(d, family) ==
    CASE d = "expt_term" -> expt_term(family)
      [] d = "G_fun" -> G_fun(family)
      [] d = "G_grad_fun" -> G_grad_fun(family)
      [] d = "g_invertfun" -> g_invertfun(family)
      [] d = "h_fun" -> h_fun(family)
      [] d = "log_h_fun" -> log_h_fun(family)

\* The per-feature root-finders of beta_routines and gamma return the
\* parameter they recover.
RootFinderOutcome == "returned"

\* What calling the object a dispatch function returned does, with arguments
\* of the right shape: expt_beta raises, None and an exception instance are
\* not callable, the root-finding inverse links hand back what the root-finder
\* gives, every other family function returns.
CallOutcome(fn) ==
    CASE fn = "expt_beta" -> "NotImplementedError"
      [] fn \in {"None", NotImplementedInstance} -> "TypeError"
      [] fn \in {"g_invert_beta", "g_invert_beta_reparametrized", "g_invert_gamma"}
            -> RootFinderOutcome
      [] OTHER -> "returned"

\* ------------------------------------------------------------------ state
\* An optional value: <<>> is None, <<x>> is the value x.
None == <<>>

Some(x) == <<x>>

\* The nuisance mapping exp_family_params: a key it does not hold is None.
EmptyParams ==
    [r |-> None, gene_filter |-> None, nu |-> None, beta |-> None, n_jobs |-> None]

VARIABLES
    \* the estimator: GLMPCA.__init__'s hyperparameters
    n_pc, family, maxiter, max_param, batch_size, step_size, gamma, n_init, n_jobs,
    initial_learning_rate_,
    \* the estimator: fitted state
    learning_rate_, saturated_loadings_, saturated_intercept_,
    reconstruction_intercept_, saturated_scores_, exp_family_params,
    projected_orthogonal_scores_svd_, saturated_param_, sample_projection,
    saturated_loadings_weights_,
    loadings_learning_scores_, loadings_learning_rates_,
    \* a running compute_saturated_loadings
    n_samples,                  \* rows of the data it was called with
    fit_pc,                     \* "idle", "iter", "train", "returned", "raised"
    idx,                        \* epoch of the running attempt
    batch_no,                   \* mini-batches done in the running epoch
    sched_lr, last_epoch,       \* the StepLR scheduler of the running attempt
    init_no,                    \* restarts finished in this call (n_init > 1)
    init_results,               \* their (restart, likelihood) results
    restarted,                  \* a divergence restart happened in this call
    \* a call of a dispatch function of exponential_family
    fam_pc,                     \* "idle", "requested", "returned" or "raised"
    fam_disp,                   \* the dispatch function asked
    fam_family,                 \* the family string it was asked with
    fam_obj,                    \* what it returned
    fam_err                     \* the error raised, or "none"

hpVars ==
    <<n_pc, family, maxiter, max_param, batch_size, step_size, gamma, n_init,
      n_jobs, initial_learning_rate_>>

fittedVars ==
    <<saturated_loadings_, saturated_intercept_, reconstruction_intercept_,
      saturated_scores_, exp_family_params, projected_orthogonal_scores_svd_,
      saturated_param_, sample_projection, saturated_loadings_weights_>>

logVars == <<loadings_learning_scores_, loadings_learning_rates_>>

estVars == <<hpVars, learning_rate_, fittedVars, logVars>>

fitVars ==
    <<n_samples, fit_pc, idx, batch_no, sched_lr, last_epoch, init_no,
      init_results, restarted>>

famVars == <<fam_pc, fam_disp, fam_family, fam_obj, fam_err>>

VARIABLES
    \* a folder on disk and what save and load did with it
    folder_exists,   \* os.path.isdir(folder)
    files,           \* the folder: file name -> None (no such file) or content
    loaded,          \* None, or the instance the last load returned
    saved,           \* None, or the estimator as it was at the last save
    pre_files,       \* the folder as it was before the last save
    cloned           \* None, or what the last clone_empty_GLMPCA gave

storeVars == <<folder_exists, files, loaded, saved, pre_files, cloned>>

VARIABLES
    \* the gene filter of a vector of coefficients
    flt_r,           \* the vector r, one float per feature
    flt_filter       \* None, or the gene filter built from it

fltVars == <<flt_r, flt_filter>>

VARIABLES
    \* the last call of a method that computes saturated parameters
    par_op,          \* the method, or "none"
    par_args,        \* with_intercept, and which optional arguments were given
    par_out          \* <<"returned", value>>, <<"raised", error>> or idle

parVars == <<par_op, par_args, par_out>>

VARIABLES
    \* the devices of the nuisance mapping and a call of a copy method
    dev_cuda,        \* torch.cuda.is_available()
    dev_stored,      \* self.exp_family_params: None, or key -> entry
    dev_op,          \* the copy method called last, or "none"
    dev_out          \* what it returned

devVars == <<dev_cuda, dev_stored, dev_op, dev_out>>

VARIABLES
    \* the estimator clone_empty_GLMPCA returned, beside the original
    clone_inst,      \* None, or the clone as an instance
    clone_shares,    \* the clone's exp_family_params is the original's object
    clone_actor,     \* the instance called last: "original", "clone" or "none"
    clone_out        \* what that call returned or raised

cloneVars == <<clone_inst, clone_shares, clone_actor, clone_out>>

\* What the operations of one specification leave alone.
notFam == <<estVars, fitVars, storeVars, fltVars, parVars, devVars, cloneVars>>

notFit == <<famVars, storeVars, fltVars, parVars, devVars, cloneVars>>

notStore == <<fitVars, famVars, fltVars, parVars, devVars, cloneVars>>

notFilter == <<estVars, fitVars, famVars, storeVars, parVars, devVars, cloneVars>>

notParams == <<fitVars, famVars, storeVars, fltVars, devVars, cloneVars>>

notDevice == <<estVars, fitVars, famVars, storeVars, fltVars, parVars, cloneVars>>

notClone == <<fitVars, famVars, storeVars, fltVars, parVars, devVars>>

\* ------------------------------------------------- SpecFam: family dispatch
InitFam ==
    /\ fam_pc = "idle"
    /\ fam_disp = "none"
    /\ fam_family = S_NA
    /\ fam_obj = "unset"
    /\ fam_err = "none"

\* A caller asks dispatch function d for the function of family fam.
Request(d, fam) ==
    /\ fam_pc = "idle"
    /\ fam_disp' = d
    /\ fam_family' = fam
    /\ IF Dispatch(d, fam) = RaiseNotImplemented
       THEN /\ fam_pc' = "raised"
            /\ fam_obj' = "unset"
            /\ fam_err' = "NotImplementedError"
       ELSE /\ fam_pc' = "requested"
            /\ fam_obj' = Dispatch(d, fam)
            /\ fam_err' = "none"
    /\ UNCHANGED notFam

\* The caller calls what the dispatch function returned, as likelihood,
\* log_likelihood, make_saturated_loading_cost and the estimator do.
Invoke ==
    /\ fam_pc = "requested"
    /\ IF CallOutcome(fam_obj) = "returned"
       THEN fam_pc' = "returned" /\ fam_err' = "none"
       ELSE fam_pc' = "raised" /\ fam_err' = CallOutcome(fam_obj)
    /\ UNCHANGED <<fam_disp, fam_family, fam_obj>>
    /\ UNCHANGED notFam

\* The caller's statement is over, with the value or with the error.
CallEnds ==
    /\ fam_pc \in {"returned", "raised"}
    /\ fam_pc' = "idle"
    /\ fam_disp' = "none"
    /\ fam_family' = S_NA
    /\ fam_obj' = "unset"
    /\ fam_err' = "none"
    /\ UNCHANGED notFam

NextFam ==
    \/ \E d \in Dispatchers, fam \in FamilyInputs : Request(d, fam)
    \/ Invoke
    \/ CallEnds

\* ------------------------------------------------------------ learning rates
\* A learning rate is a fraction <<numerator, denominator>> counted in units of
\* LEARNING_RATE_LIMIT = 10**(-20), kept in lowest terms; <<1, 0>> is the
\* float +inf a product overflows to. Rounding of the float product is left
\* out: the rates of the model are exact.
RECURSIVE GCD(_, _)
GCD(a, b) == IF b = 0 THEN a ELSE GCD(b, a % b)

Norm(n, d) == IF n = 0 THEN <<0, 1>> ELSE <<n \div GCD(n, d), d \div GCD(n, d)>>

RateInf == <<1, 0>>

\* a < b on rates (+inf is below nothing and above every finite rate).
RateLess(a, b) == a[1] * b[2] < b[1] * a[2]

\* Rates above this many units of the limit overflow to +inf.
RateOverflow == 8

\* The float product a * b.
RateMul(a, b) ==
    IF a[1] * b[1] > RateOverflow * a[2] * b[2] THEN RateInf
    ELSE Norm(a[1] * b[1], a[2] * b[2])

\* LEARNING_RATE_LIMIT itself, one unit.
LEARNING_RATE_LIMIT == <<1, 1>>

\* The rates an estimator is constructed with: half the limit, the limit
\* itself, and two rates above it.
InitialRates == {<<1, 2>>, <<1, 1>>, <<2, 1>>, <<4, 1>>}

\* The values of gamma an estimator is constructed with: the constructor
\* takes any number.
Gammas == {<<0, 1>>, <<1, 2>>, <<1, 1>>, <<2, 1>>}

MaxIter == 2

MaxStepSize == 2

\* The batch sizes an estimator is constructed with, and the rows of the data
\* it is fitted to.
BatchSizes == {1, 2}

SampleCounts == {2}

InitCounts == {1}

\* The evaluation-mode likelihoods a restart may end with.
MaxLik == 1

\* A mini-batch cost is finite, infinite or NaN.
CostClasses == {"finite", "inf", "nan"}

Last(s) == s[Len(s)]

Front(s) == SubSeq(s, 1, Len(s) - 1)

\* s with x appended to its last element, as in s[-1].append(x).
AppendToLast(s, x) == [s EXCEPT ![Len(s)] = Append(@, x)]

\* --------------------------------------------------- SpecFit: the loading fit
\* The fields GLMPCA.__init__ sets to None or to an empty list, and
\* sample_projection. saturated_scores_, projected_orthogonal_scores_svd_,
\* saturated_loadings_weights_ and saturated_param_ are attributes __init__ does not create: None stands for
\* the missing attribute too.
EmptyFit ==
    /\ saturated_loadings_ = None
    /\ saturated_intercept_ = None
    /\ reconstruction_intercept_ = None
    /\ saturated_scores_ = None
    /\ exp_family_params = None
    /\ projected_orthogonal_scores_svd_ = None
    /\ saturated_loadings_weights_ = None
    /\ saturated_param_ = None
    /\ sample_projection = FALSE
    /\ loadings_learning_scores_ = <<>>
    /\ loadings_learning_rates_ = <<>>

\* No fit is running.
IdleFit ==
    /\ n_samples = 0
    /\ fit_pc = "idle"
    /\ idx = 0
    /\ batch_no = 0
    /\ sched_lr = <<0, 1>>
    /\ last_epoch = 0
    /\ init_no = 0
    /\ init_results = <<>>
    /\ restarted = FALSE

\* GLMPCA.__init__ with the hyperparameters the fit reads drawn from the sets
\* above, for a gaussian model of rank 1.
InitFit ==
    /\ n_pc = 1
    /\ family = S_gaussian
    /\ max_param = 10
    /\ n_jobs = 1
    /\ maxiter \in 1..MaxIter
    /\ step_size \in 1..MaxStepSize
    /\ gamma \in Gammas
    /\ n_init \in InitCounts
    /\ batch_size \in BatchSizes
    /\ initial_learning_rate_ \in InitialRates
    /\ learning_rate_ = initial_learning_rate_
    /\ EmptyFit
    /\ IdleFit

\* The mini-batches the DataLoader yields per epoch: ceil(n / batch_size).
NumBatches == (n_samples + batch_size - 1) \div batch_size

\* compute_saturated_loadings(X, batch_size=bs, n_init=ni, saturated_params)
\* up to its first call of _saturated_loading_iter (0 stands for an argument
\* left out, given for saturated_params passed by the caller): the arguments
\* given replace the stored hyperparameters, the saturated parameters of X are
\* computed unless the caller passed them (the gaussian family then stores an
\* empty nuisance mapping where there was none), the rate is set back to the
\* configured one and both logs are emptied.
compute_saturated_loadings(n, bs, ni, given) ==
    /\ fit_pc \in {"idle", "returned", "raised", "TypeError"}
    /\ n_samples' = n
    /\ batch_size' = IF bs # 0 THEN bs ELSE batch_size
    /\ n_init' = IF ni # 0 THEN ni ELSE n_init
    /\ exp_family_params' = IF ~given /\ exp_family_params = None THEN Some(<<>>)
                            ELSE exp_family_params
    /\ saturated_param_' = IF given THEN Some(<<"saturated_params">>)
                           ELSE Some(<<"g_invert(X)">>)
    /\ learning_rate_' = initial_learning_rate_
    /\ loadings_learning_scores_' = <<>>
    /\ loadings_learning_rates_' = <<>>
    /\ init_no' = 0
    /\ init_results' = <<>>
    /\ restarted' = FALSE
    /\ fit_pc' = "iter"
    /\ UNCHANGED <<n_pc, family, maxiter, max_param, step_size, gamma, n_jobs,
                   initial_learning_rate_, saturated_loadings_,
                   saturated_intercept_, reconstruction_intercept_,
                   saturated_scores_, projected_orthogonal_scores_svd_,
                   saturated_loadings_weights_, sample_projection, idx, batch_no, sched_lr, last_epoch>>
    /\ UNCHANGED notFit

\* Mutant: the limit itself counts as too small.
BelowLimit_Inclusive(rate) == ~RateLess(LEARNING_RATE_LIMIT, rate)

\* The test of the rate against the limit at the head of _saturated_loading_iter.
BelowLimit(rate) == RateLess(rate, LEARNING_RATE_LIMIT)

\* Mutant: the optimizer is created with the configured rate.
OptimizerRate_Configured == initial_learning_rate_

\* The rate the optimizer and its scheduler are created with.
OptimizerRate == learning_rate_

\* The head of _saturated_loading_iter: the limit test, then the optimizer,
\* its scheduler and one new empty sequence in each log.
IterEnter ==
    /\ fit_pc = "iter"
    /\ IF BelowLimit(learning_rate_)
       THEN /\ fit_pc' = "raised"
            /\ UNCHANGED <<logVars, idx, batch_no, sched_lr, last_epoch>>
       ELSE /\ fit_pc' = "train"
            /\ sched_lr' = OptimizerRate
            /\ last_epoch' = 0
            /\ loadings_learning_scores_' = Append(loadings_learning_scores_, <<>>)
            /\ loadings_learning_rates_' = Append(loadings_learning_rates_, <<>>)
            /\ idx' = 0
            /\ batch_no' = 0
    /\ UNCHANGED <<hpVars, learning_rate_, fittedVars, n_samples, init_no,
                   init_results, restarted>>
    /\ UNCHANGED notFit

\* One mini-batch: the cost is recorded, the optimizer steps, the scheduled
\* rate is recorded.
BatchStep(cost) ==
    /\ fit_pc = "train"
    /\ idx < maxiter
    /\ batch_no < NumBatches
    /\ loadings_learning_scores_' = AppendToLast(loadings_learning_scores_, cost)
    /\ loadings_learning_rates_' = AppendToLast(loadings_learning_rates_, sched_lr)
    /\ batch_no' = batch_no + 1
    /\ UNCHANGED <<hpVars, learning_rate_, fittedVars, n_samples, fit_pc, idx,
                   sched_lr, last_epoch, init_no, init_results, restarted>>
    /\ UNCHANGED notFit

\* np.isinf(c) or np.isnan(c) on the last recorded cost.
Diverged(cost) == cost = "inf" \/ cost = "nan"

\* Mutant: a diverged attempt keeps its sequence in the log.
DropAttempt_Kept(log) == log

\* log[:-1]: the log without the sequence of the diverged attempt.
DropAttempt(log) == Front(log)

\* Mutant: a restart keeps the rate.
RestartRate_Kept == learning_rate_

\* The base rate a divergence restart goes on with.
RestartRate == RateMul(learning_rate_, gamma)

\* StepLR.step(): the scheduled rate is multiplied by gamma every step_size
\* epochs.
ScheduledRate(epoch) ==
    IF epoch % step_size = 0 THEN RateMul(sched_lr, gamma) ELSE sched_lr

\* The end of an epoch: the scheduler steps; a last cost that is infinite or
\* NaN shrinks the base rate, drops the attempt's sequence from both logs and
\* calls _saturated_loading_iter again.
EpochEnd ==
    /\ fit_pc = "train"
    /\ idx < maxiter
    /\ batch_no = NumBatches
    /\ IF Diverged(Last(Last(loadings_learning_scores_)))
       THEN /\ learning_rate_' = RestartRate
            /\ loadings_learning_scores_' = DropAttempt(loadings_learning_scores_)
            /\ loadings_learning_rates_' = DropAttempt(loadings_learning_rates_)
            /\ restarted' = TRUE
            /\ fit_pc' = "iter"
            /\ UNCHANGED <<idx, batch_no, sched_lr, last_epoch>>
       ELSE /\ sched_lr' = ScheduledRate(last_epoch + 1)
            /\ last_epoch' = last_epoch + 1
            /\ idx' = idx + 1
            /\ batch_no' = 0
            /\ UNCHANGED <<learning_rate_, logVars, restarted, fit_pc>>
    /\ UNCHANGED <<hpVars, fittedVars, n_samples, init_no, init_results>>
    /\ UNCHANGED notFit

\* np.argmin over the likelihoods of the restarts: the first index of the
\* lowest value.
ArgMin(res) ==
    CHOOSE i \in 1..Len(res) :
        /\ \A j \in 1..Len(res) : res[i].lik <= res[j].lik
        /\ \A j \in 1..(i - 1) : res[j].lik > res[i].lik

\* What compute_saturated_loadings does with the loadings and the intercept
\* of the restart it keeps: both intercepts are the fitted one, the saturated
\* parameters are centred and sample_projection is cleared.
StoreFit(restart) ==
    /\ saturated_loadings_' = Some([restart |-> restart])
    /\ saturated_intercept_' = Some([restart |-> restart])
    /\ reconstruction_intercept_' = Some([restart |-> restart])
    /\ saturated_param_' = Some(Append(saturated_param_[1], "- intercept"))
    /\ sample_projection' = FALSE
    /\ fit_pc' = "returned"

\* The epochs are over. With n_init = 1 the rate is set back and the loadings
\* are stored; otherwise the nuisance mapping is copied key by key, which is a
\* TypeError when there is none, the restart's likelihood is kept and the
\* next restart starts, the last one storing the loadings of the lowest
\* likelihood.
IterFinish ==
    /\ fit_pc = "train"
    /\ idx = maxiter
    /\ IF n_init = 1
       THEN /\ learning_rate_' = initial_learning_rate_
            /\ StoreFit(1)
            /\ UNCHANGED <<init_no, init_results>>
       ELSE IF exp_family_params = None
       THEN /\ fit_pc' = "TypeError"
            /\ UNCHANGED <<learning_rate_, init_no, init_results,
                           saturated_loadings_, saturated_intercept_,
                           reconstruction_intercept_, saturated_param_,
                           sample_projection>>
       ELSE \E lik \in 0..MaxLik :
            LET res == Append(init_results, [restart |-> init_no + 1, lik |-> lik])
            IN /\ init_no' = init_no + 1
               /\ init_results' = res
               /\ UNCHANGED learning_rate_
               /\ IF init_no + 1 = n_init
                  THEN StoreFit(res[ArgMin(res)].restart)
                  ELSE /\ fit_pc' = "iter"
                       /\ UNCHANGED <<saturated_loadings_, saturated_intercept_,
                                      reconstruction_intercept_, saturated_param_,
                                      sample_projection>>
    /\ UNCHANGED <<hpVars, saturated_scores_, exp_family_params,
                   projected_orthogonal_scores_svd_, saturated_loadings_weights_,
                   logVars, n_samples, idx,
                   batch_no, sched_lr, last_epoch, restarted>>
    /\ UNCHANGED notFit

\* What the interpreter does on its own once a fit was called.
FitStep ==
    \/ IterEnter
    \/ \E cost \in CostClasses : BatchStep(cost)
    \/ EpochEnd
    \/ IterFinish

NextFit ==
    \/ \E n \in SampleCounts, bs \in {0} \cup BatchSizes, ni \in {0} \cup InitCounts,
          given \in BOOLEAN :
           compute_saturated_loadings(n, bs, ni, given)
    \/ FitStep


\* ------------------------------------------- SpecRestarts: several restarts
\* The numbers of restarts an estimator is constructed or fitted with.
RestartCounts == {1, 2, 3}

\* The mini-batch costs of the fits with restarts.
RestartCosts == {"finite", "nan"}

\* GLMPCA.__init__ for the fits with restarts: a gaussian model of rank 1
\* that halves its rate.
InitRestarts ==
    /\ n_pc = 1
    /\ family = S_gaussian
    /\ max_param = 10
    /\ n_jobs = 1
    /\ maxiter \in 1..MaxIter
    /\ step_size = 1
    /\ gamma = <<1, 2>>
    /\ n_init \in RestartCounts
    /\ batch_size \in BatchSizes
    /\ initial_learning_rate_ = <<2, 1>>
    /\ learning_rate_ = initial_learning_rate_
    /\ EmptyFit
    /\ IdleFit

NextRestarts ==
    \/ \E n \in SampleCounts, ni \in {0} \cup RestartCounts, given \in BOOLEAN :
           compute_saturated_loadings(n, 0, ni, given)
    \/ IterEnter
    \/ \E cost \in RestartCosts : BatchStep(cost)
    \/ EpochEnd
    \/ IterFinish
\* ------------------------------------------------- SpecStore: save and load
\* Tensors are told apart by the fit that made them: fit t \in 1..MaxTensor.
MaxTensor == 2

\* The defaults of GLMPCA.__init__ that load's constructor call leaves in
\* force. gamma is the fraction <<numerator, denominator>>.
DefaultBatchSize == 128

DefaultStepSize == 20

DefaultGamma == <<1, 2>>

DefaultNInit == 1

DefaultNJobs == 1

Abs(x) == IF x < 0 THEN -x ELSE x

\* GLMPCA.__init__: the instance a constructor call leaves. The attributes
\* __init__ does not create (saturated_scores_,
\* projected_orthogonal_scores_svd_, saturated_loadings_weights_) are None, as save's hasattr tests treat
\* them. The arguments are n_pc, family, maxiter, max_param, learning_rate,
\* batch_size, step_size, gamma, n_init and n_jobs.
GLMPCA(npc, fam, iters, mp, lr, bs, ss, gm, ni, nj) ==
    [n_pc |-> npc,
     family |-> fam,
     maxiter |-> iters,
     max_param |-> Abs(mp),
     learning_rate_ |-> lr,
     initial_learning_rate_ |-> lr,
     n_jobs |-> nj,
     batch_size |-> bs,
     n_init |-> ni,
     gamma |-> gm,
     step_size |-> ss,
     saturated_loadings_ |-> None,
     saturated_intercept_ |-> None,
     reconstruction_intercept_ |-> None,
     sample_projection |-> FALSE,
     exp_family_params |-> None,
     saturated_scores_ |-> None,
     projected_orthogonal_scores_svd_ |-> None,
     saturated_loadings_weights_ |-> None]

\* The estimator the variables hold, as one instance.
Estimator ==
    [n_pc |-> n_pc,
     family |-> family,
     maxiter |-> maxiter,
     max_param |-> max_param,
     learning_rate_ |-> learning_rate_,
     initial_learning_rate_ |-> initial_learning_rate_,
     n_jobs |-> n_jobs,
     batch_size |-> batch_size,
     n_init |-> n_init,
     gamma |-> gamma,
     step_size |-> step_size,
     saturated_loadings_ |-> saturated_loadings_,
     saturated_intercept_ |-> saturated_intercept_,
     reconstruction_intercept_ |-> reconstruction_intercept_,
     sample_projection |-> sample_projection,
     exp_family_params |-> exp_family_params,
     saturated_scores_ |-> saturated_scores_,
     projected_orthogonal_scores_svd_ |-> projected_orthogonal_scores_svd_,
     saturated_loadings_weights_ |-> saturated_loadings_weights_]

\* The constructor calls of the callers: every default, and every
\* hyperparameter away from its default (max_param given negative).
ConstructorCalls ==
    {GLMPCA(2, S_gaussian, 1000, 10, <<2, 1>>, DefaultBatchSize, DefaultStepSize,
            DefaultGamma, DefaultNInit, DefaultNJobs),
     GLMPCA(3, S_poisson, 50, -7, <<4, 1>>, 64, 10, <<1, 4>>, 3, 2)}

\* The files save writes besides params.pkl, with the field each holds.
ArtifactField ==
    [saturated_loadings__pt |-> "saturated_loadings_",
     saturated_intercept__pt |-> "saturated_intercept_",
     saturated_scores__pt |-> "saturated_scores_",
     exp_family_params_pkl |-> "exp_family_params",
     projected_orthogonal_scores_svd_pkl |-> "projected_orthogonal_scores_svd_"]

Artifacts == DOMAIN ArtifactField

FileNames == Artifacts \cup {"params_pkl"}

EmptyFolder ==
    /\ folder_exists = FALSE
    /\ files = [f \in FileNames |-> None]
    /\ loaded = None
    /\ cloned = None
    /\ saved = None
    /\ pre_files = [f \in FileNames |-> None]

\* The estimator variables take the fields of instance e.
Becomes(e) ==
    /\ n_pc' = e.n_pc
    /\ family' = e.family
    /\ maxiter' = e.maxiter
    /\ max_param' = e.max_param
    /\ learning_rate_' = e.learning_rate_
    /\ initial_learning_rate_' = e.initial_learning_rate_
    /\ n_jobs' = e.n_jobs
    /\ batch_size' = e.batch_size
    /\ n_init' = e.n_init
    /\ gamma' = e.gamma
    /\ step_size' = e.step_size
    /\ saturated_loadings_' = e.saturated_loadings_
    /\ saturated_intercept_' = e.saturated_intercept_
    /\ reconstruction_intercept_' = e.reconstruction_intercept_
    /\ sample_projection' = e.sample_projection
    /\ exp_family_params' = e.exp_family_params
    /\ saturated_scores_' = e.saturated_scores_
    /\ projected_orthogonal_scores_svd_' = e.projected_orthogonal_scores_svd_
    /\ saturated_loadings_weights_' = e.saturated_loadings_weights_

InitStore ==
    /\ \E e \in ConstructorCalls :
        /\ n_pc = e.n_pc
        /\ family = e.family
        /\ maxiter = e.maxiter
        /\ max_param = e.max_param
        /\ learning_rate_ = e.learning_rate_
        /\ initial_learning_rate_ = e.initial_learning_rate_
        /\ n_jobs = e.n_jobs
        /\ batch_size = e.batch_size
        /\ n_init = e.n_init
        /\ gamma = e.gamma
        /\ step_size = e.step_size
    /\ EmptyFit
    /\ EmptyFolder

\* The caller constructs another estimator and goes on with it.
Construct(e) ==
    /\ Becomes(e)
    /\ saturated_param_' = None
    /\ loadings_learning_scores_' = <<>>
    /\ loadings_learning_rates_' = <<>>
    /\ loaded' = None
    /\ cloned' = None
    /\ UNCHANGED <<folder_exists, files, saved, pre_files>>
    /\ UNCHANGED notStore

\* A compute_saturated_loadings that returns, as one step, for a training
\* that ran one attempt of one epoch: fit t stores its loadings and its
\* intercept (twice), centres the saturated parameters, clears
\* sample_projection and leaves the rate at the configured one. The
\* nuisance mapping is created unless the caller gave the saturated
\* parameters itself (given), in which case compute_saturated_params is not
\* called.
FitLoadings(t, given) ==
    /\ saturated_loadings_' = Some(<<"loadings", t>>)
    /\ saturated_intercept_' = Some(<<"intercept", t>>)
    /\ reconstruction_intercept_' = Some(<<"intercept", t>>)
    /\ saturated_param_' = Some(<<"centred", t>>)
    /\ sample_projection' = FALSE
    /\ learning_rate_' = initial_learning_rate_
    /\ exp_family_params' = IF exp_family_params = None /\ ~given THEN Some(EmptyParams)
                            ELSE exp_family_params
    /\ loadings_learning_scores_' = <<<<"finite">>>>
    /\ loadings_learning_rates_' = <<<<initial_learning_rate_>>>>
    /\ loaded' = None
    /\ cloned' = None
    /\ UNCHANGED <<hpVars, saturated_scores_, projected_orthogonal_scores_svd_,
                   saturated_loadings_weights_,
                   folder_exists, files, saved, pre_files>>
    /\ UNCHANGED notStore

\* compute_saturated_orthogonal_scores() on an estimator with loadings: the
\* scores and the truncated SVD of the projected saturated parameters are
\* stored; correct_loadings replaces the loadings and sets sample_projection.
ComputeScores(correct_loadings) ==
    /\ saturated_loadings_ # None
    /\ saturated_scores_' = Some(<<"U", saturated_loadings_[1][2]>>)
    /\ projected_orthogonal_scores_svd_' = Some(<<"USV", saturated_loadings_[1][2]>>)
    /\ IF correct_loadings
       THEN /\ saturated_loadings_' = Some(<<"loadings V / S", saturated_loadings_[1][2]>>)
            /\ saturated_loadings_weights_' = Some(<<"S", saturated_loadings_[1][2]>>)
            /\ sample_projection' = TRUE
       ELSE UNCHANGED <<saturated_loadings_, saturated_loadings_weights_,
                        sample_projection>>
    /\ loaded' = None
    /\ cloned' = None
    /\ UNCHANGED <<hpVars, learning_rate_, saturated_intercept_,
                   reconstruction_intercept_, exp_family_params, saturated_param_,
                   logVars, folder_exists, files, saved, pre_files>>
    /\ UNCHANGED notStore

\* The record save pickles into params.pkl (log_part_theta_matrices_, always
\* None, is left out).
ParamsRecord(e) ==
    [n_pc |-> e.n_pc,
     family |-> e.family,
     maxiter |-> e.maxiter,
     max_param |-> e.max_param,
     learning_rate_ |-> e.learning_rate_,
     initial_learning_rate_ |-> e.initial_learning_rate_]

\* Mutant: save removes the file of a field that is None.
SaveFile_Purging(value, old) == value

\* One optional file after save: written when the field is not None, left as
\* it was otherwise.
SaveFile(value, old) == IF value # None THEN value ELSE old

\* GLMPCA.save(folder).
save ==
    /\ folder_exists' = TRUE
    /\ files' = [f \in FileNames |->
                    IF f = "params_pkl" THEN Some(ParamsRecord(Estimator))
                    ELSE SaveFile(Estimator[ArtifactField[f]], files[f])]
    /\ saved' = Some(Estimator)
    /\ pre_files' = files
    /\ loaded' = None
    /\ cloned' = None
    /\ UNCHANGED <<estVars>>
    /\ UNCHANGED notStore

\* The instance load starts from.
LoadBlank ==
    GLMPCA(-1, S_NA, -1, -1, <<-1, 1>>, DefaultBatchSize, DefaultStepSize,
           DefaultGamma, DefaultNInit, DefaultNJobs)

\* GLMPCA.load(folder): the instance it returns from a folder holding
\* params.pkl.
LoadedInstance(fs) ==
    [LoadBlank EXCEPT
        !.n_pc = fs["params_pkl"][1].n_pc,
        !.family = fs["params_pkl"][1].family,
        !.maxiter = fs["params_pkl"][1].maxiter,
        !.max_param = fs["params_pkl"][1].max_param,
        !.learning_rate_ = fs["params_pkl"][1].learning_rate_,
        !.initial_learning_rate_ = fs["params_pkl"][1].initial_learning_rate_,
        !.saturated_loadings_ = fs["saturated_loadings__pt"],
        !.saturated_intercept_ = fs["saturated_intercept__pt"],
        !.reconstruction_intercept_ = fs["saturated_intercept__pt"],
        !.saturated_scores_ = fs["saturated_scores__pt"],
        !.exp_family_params = fs["exp_family_params_pkl"],
        !.projected_orthogonal_scores_svd_ = fs["projected_orthogonal_scores_svd_pkl"]]

\* GLMPCA.load(folder) on a folder a save wrote to.
load ==
    /\ files["params_pkl"] # None
    /\ loaded' = Some(LoadedInstance(files))
    /\ cloned' = None
    /\ UNCHANGED <<estVars, folder_exists, files, saved, pre_files>>
    /\ UNCHANGED notStore

\* GLMPCA.clone_empty_GLMPCA(): the instance it builds from the estimator e.
ClonedInstance(e) ==
    [GLMPCA(e.n_pc, e.family, e.maxiter, e.max_param, e.learning_rate_,
            DefaultBatchSize, e.step_size, e.gamma, DefaultNInit, e.n_jobs) EXCEPT
        !.saturated_intercept_ = e.saturated_intercept_,
        !.reconstruction_intercept_ = e.reconstruction_intercept_,
        !.exp_family_params = e.exp_family_params]

\* clone_empty_GLMPCA(): the clone it returns, or the AttributeError the
\* clone() of an intercept that is None raises.
clone_empty_GLMPCA ==
    /\ cloned' = IF saturated_intercept_ = None \/ reconstruction_intercept_ = None
                 THEN <<"raised", "AttributeError">>
                 ELSE <<"returned", ClonedInstance(Estimator)>>
    /\ loaded' = None
    /\ UNCHANGED <<estVars, folder_exists, files, saved, pre_files>>
    /\ UNCHANGED notStore

NextStore ==
    \/ \E e \in ConstructorCalls : Construct(e)
    \/ \E t \in 1..MaxTensor, given \in BOOLEAN : FitLoadings(t, given)
    \/ \E c \in BOOLEAN : ComputeScores(c)
    \/ save
    \/ load
    \/ clone_empty_GLMPCA

\* ------------------------------------------------------------- float values
\* A float is <<"num", n>> for the finite value n / Scale, <<"inf", 1>>,
\* <<"inf", -1>> or <<"nan", 0>>; arithmetic rounds to 1 / Scale.
Scale == 100

Num(n) == <<"num", n>>

NaN == <<"nan", 0>>

PosInf == <<"inf", 1>>

NegInf == <<"inf", -1>>

IsNaN(x) == x[1] = "nan"

IsInf(x) == x[1] = "inf"

\* a < b on floats: anything compared with NaN is False.
FLess(a, b) ==
    IF IsNaN(a) \/ IsNaN(b) THEN FALSE
    ELSE IF IsInf(a) THEN a[2] < 0 /\ b # NegInf
    ELSE IF IsInf(b) THEN b[2] > 0
    ELSE a[2] < b[2]

FGreater(a, b) == FLess(b, a)

\* ------------------------------------------- SpecFilter: the gene filter
\* The bounds of the filter on r, 0.01 and 10**4.
R_LOW == Num(1)

R_HIGH == Num(10000 * Scale)

\* Mutant: the lower bound of the filter is inclusive.
FilterMask_Inclusive(r) ==
    [i \in 1..Len(r) |->
        ~FLess(r[i], R_LOW) /\ ~IsNaN(r[i]) /\ FLess(r[i], R_HIGH)]

\* (r_coef > 0.01) & (~torch.isnan(r_coef)) & (r_coef < 10**4), element-wise.
FilterMask(r) ==
    [i \in 1..Len(r) |->
        FGreater(r[i], R_LOW) /\ ~IsNaN(r[i]) /\ FLess(r[i], R_HIGH)]

\* torch.where(mask)[0]: the 0-based indices of the True entries from
\* position i on, in their order.
RECURSIVE Where(_, _)
Where(mask, i) ==
    IF i > Len(mask) THEN <<>>
    ELSE (IF mask[i] THEN <<i - 1>> ELSE <<>>) \o Where(mask, i + 1)

\* The gene filter of the dispersion vector r.
GeneFilter(r) == Where(FilterMask(r), 1)

\* Features of a data set.
MaxGenes == 2

\* Coefficients r on, at and between the bounds of the filter, and the
\* values 1 / dispersion gives for a dispersion of 0 or NaN.
RValues ==
    {Num(-5), Num(0), Num(1), Num(2), Num(10000 * Scale - 1), Num(10000 * Scale),
     PosInf, NaN}

RVectors == UNION {[1..p -> RValues] : p \in 1..MaxGenes}

InitFilter ==
    /\ flt_r \in RVectors
    /\ flt_filter = None

\* The filter of the vector is built.
BuildFilter ==
    /\ flt_filter = None
    /\ flt_filter' = Some(GeneFilter(flt_r))
    /\ UNCHANGED flt_r
    /\ UNCHANGED notFilter

\* The next vector of coefficients comes in.
NextVector(r) ==
    /\ flt_filter # None
    /\ flt_r' = r
    /\ flt_filter' = None
    /\ UNCHANGED notFilter

NextFilter ==
    \/ BuildFilter
    \/ \E r \in RVectors : NextVector(r)

\* --------------------------------------------------------- float arithmetic
FNeg(a) == IF IsNaN(a) THEN NaN ELSE <<a[1], -a[2]>>

FAdd(a, b) ==
    IF IsNaN(a) \/ IsNaN(b) THEN NaN
    ELSE IF IsInf(a) /\ IsInf(b) THEN (IF a = b THEN a ELSE NaN)
    ELSE IF IsInf(a) THEN a
    ELSE IF IsInf(b) THEN b
    ELSE Num(a[2] + b[2])

FSub(a, b) == FAdd(a, FNeg(b))

Sign(n) == IF n < 0 THEN -1 ELSE IF n > 0 THEN 1 ELSE 0

FMul(a, b) ==
    IF IsNaN(a) \/ IsNaN(b) THEN NaN
    ELSE IF IsInf(a) \/ IsInf(b)
         THEN (IF Sign(a[2]) * Sign(b[2]) = 0 THEN NaN
               ELSE <<"inf", Sign(a[2]) * Sign(b[2])>>)
    ELSE Num((a[2] * b[2]) \div Scale)

FDiv(a, b) ==
    IF IsNaN(a) \/ IsNaN(b) THEN NaN
    ELSE IF IsInf(a) THEN (IF IsInf(b) THEN NaN
                           ELSE <<"inf", a[2] * (IF b[2] < 0 THEN -1 ELSE 1)>>)
    ELSE IF IsInf(b) THEN Num(0)
    ELSE IF b[2] = 0 THEN (IF a[2] = 0 THEN NaN ELSE <<"inf", Sign(a[2])>>)
    ELSE Num((a[2] * Scale) \div b[2])

\* Scale * ln(n / Scale) for n > 0, exact at the powers of two and linear
\* between two of them.
RECURSIVE Ln(_)
Ln(n) ==
    IF n >= 2 * Scale THEN 69 + Ln(n \div 2)
    ELSE IF n < Scale THEN Ln(2 * n) - 69
    ELSE ((n - Scale) * 69) \div Scale

\* torch.log.
FLog(a) ==
    IF IsNaN(a) THEN NaN
    ELSE IF IsInf(a) THEN (IF a[2] > 0 THEN PosInf ELSE NaN)
    ELSE IF a[2] < 0 THEN NaN
    ELSE IF a[2] = 0 THEN NegInf
    ELSE Num(Ln(a[2]))

\* torch.clip(a, lo, hi) = min(max(a, lo), hi); NaN stays NaN.
FClip(a, lo, hi) ==
    IF IsNaN(a) THEN NaN
    ELSE IF FLess(a, lo) THEN lo
    ELSE IF FLess(hi, a) THEN hi
    ELSE a

\* ------------------------------------------------------------------ tensors
\* F of the value of v, which is computed once.
Bind(v, F(_)) == CHOOSE y \in {F(x) : x \in {v}} : TRUE

\* A matrix is the sequence of its rows, a row the sequence of its entries.
Cols(M) == Len(M[1])

\* F on every entry.
MapM(F(_), M) ==
    Bind(M, LAMBDA m : [i \in 1..Len(m) |-> [j \in 1..Len(m[i]) |-> F(m[i][j])]])

\* M[:, index] for a sequence of 0-based column indices.
SelectCols(M, index) ==
    Bind(<<M, index>>,
         LAMBDA a : [i \in 1..Len(a[1]) |->
                        [c \in 1..Len(a[2]) |-> a[1][i][a[2][c] + 1]]])

\* v[index] for a sequence of 0-based indices.
SelectEntries(v, index) == [c \in 1..Len(index) |-> v[index[c] + 1]]

\* Broadcasting of a last dimension k against a last dimension q.
Broadcastable(k, q) == k = q \/ k = 1 \/ q = 1

BroadcastLen(k, q) == IF k = 1 THEN q ELSE k

\* F(M[i][j], v[j]) with the rows of M broadcast against the vector v.
BroadcastRows(F(_, _), M, v) ==
    Bind(<<M, v>>,
         LAMBDA a : [i \in 1..Len(a[1]) |->
                        [j \in 1..BroadcastLen(Cols(a[1]), Len(a[2])) |->
                            F(a[1][i][IF Cols(a[1]) = 1 THEN 1 ELSE j],
                              a[2][IF Len(a[2]) = 1 THEN 1 ELSE j])]])

RECURSIVE FSum(_, _)
FSum(v, i) == IF i > Len(v) THEN Num(0) ELSE FAdd(v[i], FSum(v, i + 1))

\* torch.mean(M, axis=0): the mean of every column.
ColumnMean(M) ==
    Bind(M, LAMBDA m : [j \in 1..Cols(m) |->
                           FDiv(FSum([i \in 1..Len(m) |-> m[i][j]], 1),
                                Num(Len(m) * Scale))])

\* No entry of M is NaN or infinite.
AllFinite(M) ==
    Bind(M, LAMBDA m : \A i \in 1..Len(m) : \A j \in 1..Len(m[i]) : m[i][j][1] = "num")

\* ------------------------------------------------------------ inverse links
g_invert_bernoulli(y) == FLog(FDiv(y, FSub(Num(Scale), y)))

g_invert_continuous_bernoulli(y) ==
    IF y = Num(0) THEN NegInf ELSE IF y = Num(Scale) THEN PosInf ELSE y

g_invert_gaussian(y) == y

g_invert_poisson(y) ==
    IF y = Num(0) THEN NegInf ELSE IF FGreater(y, Num(0)) THEN FLog(y) ELSE y

\* log(x / (x + r)), entry-wise.
NBTerm(x, r) == FLog(FDiv(x, FAdd(x, r)))

\* log(r * r / x), entry-wise.
NBRepTerm(x, r) == FLog(FDiv(FMul(r, r), x))

\* The outcome of a call: the value it returned or the error it raised.
Returned(v) == <<"returned", v>>

Raised(err) == <<"raised", err>>

\* g_invert_negative_binomial(x, params).
g_invert_negative_binomial(x, params) ==
    IF params = None THEN Raised("TypeError")
    ELSE IF params[1].r = None THEN Raised("KeyError")
    ELSE IF ~Broadcastable(Cols(x), Len(params[1].r[1])) THEN Raised("RuntimeError")
    ELSE Returned(BroadcastRows(NBTerm, x, params[1].r[1]))

\* g_invert_negative_binomial_reparametrized(x, params).
g_invert_negative_binomial_reparametrized(x, params) ==
    IF params = None THEN Raised("TypeError")
    ELSE IF params[1].r = None THEN Raised("KeyError")
    ELSE IF Len(params[1].r[1]) # Cols(x)
    THEN IF params[1].gene_filter = None THEN Raised("KeyError")
         ELSE IF \E c \in 1..Len(params[1].gene_filter[1]) :
                     params[1].gene_filter[1][c] >= Len(params[1].r[1])
              THEN Raised("IndexError")
         ELSE IF ~Broadcastable(Cols(x), Len(params[1].gene_filter[1]))
              THEN Raised("RuntimeError")
         ELSE Returned(BroadcastRows(NBRepTerm, x,
                           SelectEntries(params[1].r[1], params[1].gene_filter[1])))
    ELSE Returned(BroadcastRows(NBRepTerm, x, params[1].r[1]))

\* The inverse links that solve for their value per feature
\* (g_invert_beta, g_invert_beta_reparametrized, g_invert_gamma) and
\* g_invert_log_normal read their parameter from params and return a matrix
\* of the shape of x, out here.
SolvedLink(key, x, params, out) ==
    IF params = None THEN Raised("TypeError")
    ELSE IF params[1][key] = None THEN Raised("KeyError")
    ELSE Returned(out)

\* g_invertfun(family)(x, params): what the function named fn gives.
ApplyLink(fn, x, params, out) ==
    CASE fn = "g_invert_bernoulli" -> Returned(MapM(g_invert_bernoulli, x))
      [] fn = "g_invert_continuous_bernoulli" ->
            Returned(MapM(g_invert_continuous_bernoulli, x))
      [] fn = "g_invert_gaussian" -> Returned(MapM(g_invert_gaussian, x))
      [] fn = "g_invert_poisson" -> Returned(MapM(g_invert_poisson, x))
      [] fn = "g_invert_negative_binomial" -> g_invert_negative_binomial(x, params)
      [] fn = "g_invert_negative_binomial_reparametrized" ->
            g_invert_negative_binomial_reparametrized(x, params)
      [] fn = "g_invert_beta" -> SolvedLink("beta", x, params, out)
      [] fn \in {"g_invert_beta_reparametrized", "g_invert_log_normal", "g_invert_gamma"} ->
            SolvedLink("nu", x, params, out)
      [] fn = RaiseNotImplemented -> Raised("NotImplementedError")
      [] OTHER -> Raised("TypeError")

\* ------------------------------------- SpecParams: saturated parameters
\* self.exp_family_params, or the {} that takes its place when it is None.
Base(params) == IF params = None THEN EmptyParams ELSE params[1]

\* The estimator with the saturated parameters and the logs it holds.
Self ==
    Estimator @@ [saturated_param_ |-> saturated_param_,
                  loadings_learning_scores_ |-> loadings_learning_scores_,
                  loadings_learning_rates_ |-> loadings_learning_rates_]

\* The estimator is left as e.
SetSelf(e) ==
    /\ Becomes(e)
    /\ saturated_param_' = e.saturated_param_
    /\ loadings_learning_scores_' = e.loadings_learning_scores_
    /\ loadings_learning_rates_' = e.loadings_learning_rates_

\* What a method leaves: the estimator and what the call returned or raised.
Outcome(e, result) == [self |-> e, out |-> result]

\* Some index of the sequence index is not below n.
OutOfRange(index, n) == \E c \in 1..Len(index) : index[c] >= n

\* compute_saturated_params, the negative binomial families: r and the gene
\* filter come from the mapping given (arg) when it holds r, from the data
\* (r_est) otherwise; the link reads the mapping stored on the estimator.
NBSaturated(e, X, arg, save_family_params, inp) ==
    LET supplied == arg # None /\ arg[1].r # None
        r_coef == IF supplied THEN arg[1].r[1] ELSE inp.r_est
        gene_filter == IF supplied THEN arg[1].gene_filter[1] ELSE GeneFilter(r_coef)
        stored == IF save_family_params
                  THEN Some([Base(e.exp_family_params) EXCEPT
                                !.r = Some(r_coef),
                                !.gene_filter = Some(GeneFilter(r_coef))])
                  ELSE e.exp_family_params
        e1 == [e EXCEPT !.exp_family_params = stored]
    IN  IF supplied /\ arg[1].gene_filter = None THEN Outcome(e, Raised("KeyError"))
        ELSE IF OutOfRange(gene_filter, Len(r_coef)) \/ OutOfRange(gene_filter, Cols(X))
             THEN Outcome(e1, Raised("IndexError"))
        ELSE Outcome(e1, ApplyLink(g_invertfun(e.family), SelectCols(X, gene_filter),
                                   stored, inp.out))

\* compute_saturated_params, the families with one estimated parameter
\* (key): it comes from the mapping given when that holds it, from the data
\* (inp.est) otherwise. with_jobs: n_jobs is stored with it; add_jobs: n_jobs
\* is added to the stored mapping when it lacks it.
KeyedSaturated(e, X, arg, save_family_params, inp, key, with_jobs, add_jobs) ==
    LET value == IF arg # None /\ arg[1][key] # None THEN arg[1][key][1] ELSE inp.est
        kept == [Base(e.exp_family_params) EXCEPT ![key] = Some(value)]
        stored == IF ~save_family_params THEN e.exp_family_params
                  ELSE IF with_jobs THEN Some([kept EXCEPT !.n_jobs = Some(e.n_jobs)])
                  ELSE Some(kept)
        added == IF add_jobs /\ stored[1].n_jobs = None
                 THEN Some([stored[1] EXCEPT !.n_jobs = Some(e.n_jobs)])
                 ELSE stored
    IN  IF add_jobs /\ stored = None THEN Outcome(e, Raised("TypeError"))
        ELSE Outcome([e EXCEPT !.exp_family_params = added],
                     ApplyLink(g_invertfun(e.family), X, added, inp.out))

\* compute_saturated_params, every other family.
PlainSaturated(e, X, save_family_params, inp) ==
    LET stored == IF save_family_params /\ e.exp_family_params = None
                  THEN Some(EmptyParams)
                  ELSE e.exp_family_params
    IN  Outcome([e EXCEPT !.exp_family_params = stored],
                ApplyLink(g_invertfun(e.family), X, stored, inp.out))

\* Mutant: the saturated parameters are not clipped.
ClipBound_Unbounded(e) == PosInf

\* self.max_param as a float.
ClipBound(e) == Num(e.max_param * Scale)

\* torch.clip(saturated_param_, -self.max_param, self.max_param).
Clip(e, M) ==
    LET ClipEntry(a) == FClip(a, FNeg(ClipBound(e)), ClipBound(e))
    IN  MapM(ClipEntry, M)

\* The end of compute_saturated_params, after the inverse link (linked): the
\* clipping, and the subtraction of the stored intercept.
ClipAndCentre(linked, with_intercept) ==
    IF linked.out[1] = "raised" THEN linked
    ELSE IF ~with_intercept
         THEN Outcome(linked.self, Returned(Clip(linked.self, linked.out[2])))
    ELSE IF linked.self.saturated_intercept_ = None
         THEN Outcome(linked.self, Raised("AttributeError"))
    ELSE IF ~Broadcastable(Cols(linked.out[2]), Len(linked.self.saturated_intercept_[1]))
         THEN Outcome(linked.self, Raised("RuntimeError"))
    ELSE Outcome(linked.self,
                 Returned(BroadcastRows(FSub, Clip(linked.self, linked.out[2]),
                                        linked.self.saturated_intercept_[1])))

\* GLMPCA.compute_saturated_params(X, with_intercept, exp_family_params=arg,
\* save_family_params) on estimator e. inp holds what the data gives where
\* the code estimates from it or solves for it.
compute_saturated_params(e, X, with_intercept, arg, save_family_params, inp) ==
    Bind(Bind(Lower(e.family), LAMBDA fam :
            IF fam \in NBFamilies THEN NBSaturated(e, X, arg, save_family_params, inp)
            ELSE IF fam \in {S_beta_reparam, S_beta_rep}
                 THEN KeyedSaturated(e, X, arg, save_family_params, inp, "nu", TRUE, TRUE)
            ELSE IF fam \in {S_beta}
                 THEN KeyedSaturated(e, X, arg, save_family_params, inp, "beta", TRUE, TRUE)
            ELSE IF fam \in {S_log_normal, S_log_sp_normal, S_lognorm}
                 THEN KeyedSaturated(e, X, arg, save_family_params, inp, "nu", FALSE, FALSE)
            ELSE IF fam \in {S_gamma}
                 THEN KeyedSaturated(e, X, arg, save_family_params, inp, "nu", TRUE, FALSE)
            ELSE PlainSaturated(e, X, save_family_params, inp)),
         LAMBDA done : ClipAndCentre(done, with_intercept))

\* The columns of the data the training is given: X[:, gene_filter] for the
\* negative binomial families, X otherwise.
TrainingData(e, X) ==
    IF Lower(e.family) \notin NBFamilies THEN Returned(Cols(X))
    ELSE IF e.exp_family_params = None THEN Raised("TypeError")
    ELSE IF e.exp_family_params[1].gene_filter = None THEN Raised("KeyError")
    ELSE IF OutOfRange(e.exp_family_params[1].gene_filter[1], Cols(X))
         THEN Raised("IndexError")
    ELSE Returned(Len(e.exp_family_params[1].gene_filter[1]))

\* _saturated_loading_iter for a training that converges in its first
\* attempt, on saturated parameters M and data of data_cols columns: the rate
\* is checked, the loadings start from the SVD of the centred M, the
\* intercept is the column mean of M, and the cost multiplies data and
\* projected parameters entry by entry.
Training(e, M, data_cols) ==
    IF BelowLimit(e.learning_rate_) THEN Outcome(e, Raised("ValueError"))
    ELSE IF ~AllFinite(M) THEN Outcome(e, Raised("LinAlgError"))
    ELSE IF ~Broadcastable(Cols(M), data_cols)
         THEN Outcome([e EXCEPT !.loadings_learning_scores_ = <<<<>>>>,
                                !.loadings_learning_rates_ = <<<<>>>>],
                      Raised("RuntimeError"))
    ELSE Outcome([e EXCEPT !.loadings_learning_scores_ = <<<<"finite">>>>,
                           !.loadings_learning_rates_ = <<<<e.learning_rate_>>>>,
                           !.saturated_loadings_ = Some(<<"loadings", Cols(M), e.n_pc>>),
                           !.saturated_intercept_ = Some(ColumnMean(M))],
                 Returned(<<"loadings", Cols(M), e.n_pc>>))

\* The end of compute_saturated_loadings, after the training (trained) of
\* the estimator e3: the intercept is stored twice and subtracted from the
\* saturated parameters.
FitEnd(e3, trained) ==
    IF trained.out[1] = "raised" THEN trained
    ELSE Outcome([trained.self EXCEPT
                     !.reconstruction_intercept_ = trained.self.saturated_intercept_,
                     !.saturated_param_ =
                         Some(BroadcastRows(FSub, e3.saturated_param_[1],
                                            trained.self.saturated_intercept_[1])),
                     !.sample_projection = FALSE],
                 trained.out)

\* compute_saturated_loadings from the reset of the rate on, on the
\* estimator e2 that holds the saturated parameters.
FitTraining(e2, X) ==
    Bind([e2 EXCEPT !.learning_rate_ = e2.initial_learning_rate_,
                    !.loadings_learning_scores_ = <<>>,
                    !.loadings_learning_rates_ = <<>>],
         LAMBDA e3 :
             IF TrainingData(e3, X)[1] = "raised" THEN Outcome(e3, TrainingData(e3, X))
             ELSE Bind(Training(e3, e3.saturated_param_[1], TrainingData(e3, X)[2]),
                       LAMBDA trained : FitEnd(e3, trained)))

\* GLMPCA.compute_saturated_loadings(X, exp_family_params=arg,
\* saturated_params=given) with n_init = 1.
FitOutcome(e, X, arg, given, inp) ==
    Bind(IF arg # None THEN [e EXCEPT !.exp_family_params = arg] ELSE e,
         LAMBDA e1 :
             IF given # None THEN FitTraining([e1 EXCEPT !.saturated_param_ = given], X)
             ELSE Bind(compute_saturated_params(e1, X, FALSE, e1.exp_family_params,
                                                TRUE, inp),
                       LAMBDA computed :
                           IF computed.out[1] = "raised" THEN computed
                           ELSE FitTraining([computed.self EXCEPT
                                                !.saturated_param_ = Some(computed.out[2])],
                                            X)))

\* saturated_param_.matmul(saturated_loadings_) on estimator e: the error it
\* raises, or "none".
ProjectionError(M, loadings) ==
    IF loadings = None THEN "TypeError"
    ELSE IF Cols(M) # loadings[1][2] THEN "RuntimeError"
    ELSE "none"

\* The smaller of two numbers.
Min(a, b) == IF a < b THEN a ELSE b

\* The loadings correction of compute_saturated_orthogonal_scores on the
\* estimator scored, which holds the truncated SVD of kept components:
\* loadings (p x c) times V.T (kept x p), then times diag(1 / S)
\* (kept x kept). The loadings are a matrix of p x p entries in between.
CorrectLoadings(scored, kept) ==
    LET p == scored.saturated_loadings_[1][2]
        c == scored.saturated_loadings_[1][3]
        widened == [scored EXCEPT
                       !.saturated_loadings_ = Some(<<"loadings V.T", p, p>>),
                       !.saturated_loadings_weights_ = Some(<<"S", kept>>)]
    IN  IF c # kept THEN Outcome(scored, Raised("RuntimeError"))
        ELSE IF p # kept THEN Outcome(widened, Raised("RuntimeError"))
        ELSE Outcome([widened EXCEPT
                         !.saturated_loadings_ = Some(<<"loadings V.T / S", p, kept>>),
                         !.sample_projection = TRUE],
                     Returned(scored.saturated_scores_[1]))

\* The end of compute_saturated_orthogonal_scores, on the estimator e1 that
\* holds the saturated parameters: their projection on the loadings, its SVD
\* cut to n_pc components, the scores and the corrected loadings.
ScoresEnd(e1, correct_loadings) ==
    LET rows == Len(e1.saturated_param_[1])
        kept == Min(e1.n_pc, Min(rows, Cols(e1.saturated_param_[1])))
        scored == [e1 EXCEPT
                      !.saturated_scores_ = Some(<<"U", rows, kept>>),
                      !.projected_orthogonal_scores_svd_ = Some(<<"USV", rows, kept>>)]
    IN  IF e1.saturated_param_ = None THEN Outcome(e1, Raised("AttributeError"))
        ELSE IF ProjectionError(e1.saturated_param_[1], e1.saturated_loadings_) # "none"
             THEN Outcome(e1, Raised(ProjectionError(e1.saturated_param_[1],
                                                     e1.saturated_loadings_)))
        ELSE IF ~AllFinite(e1.saturated_param_[1]) THEN Outcome(e1, Raised("LinAlgError"))
        ELSE IF correct_loadings THEN CorrectLoadings(scored, kept)
        ELSE Outcome(scored, Returned(scored.saturated_scores_[1]))

\* compute_saturated_orthogonal_scores from its test of X on: X is None or
\* Some(data).
ScoresOfFitted(e, X, correct_loadings, inp) ==
    IF X = None THEN ScoresEnd(e, correct_loadings)
    ELSE Bind(compute_saturated_params(e, X[1], TRUE, e.exp_family_params, FALSE, inp),
              LAMBDA computed :
                  IF computed.out[1] = "raised" THEN computed
                  ELSE Bind([computed.self EXCEPT
                                !.saturated_param_ = Some(computed.out[2])],
                            LAMBDA e1 : ScoresEnd(e1, correct_loadings)))

\* Mutant: the estimator is fitted to X whether it has loadings or not.
compute_saturated_orthogonal_scores_Refitting(e, X, correct_loadings, inp) ==
    IF X = None THEN ScoresOfFitted(e, X, correct_loadings, inp)
    ELSE Bind(FitOutcome(e, X[1], None, None, inp),
              LAMBDA fitted :
                  IF fitted.out[1] = "raised" THEN fitted
                  ELSE ScoresOfFitted(fitted.self, X, correct_loadings, inp))

\* GLMPCA.compute_saturated_orthogonal_scores(X, correct_loadings): an
\* estimator without loadings is fitted to X first.
compute_saturated_orthogonal_scores(e, X, correct_loadings, inp) ==
    IF e.saturated_loadings_ # None THEN ScoresOfFitted(e, X, correct_loadings, inp)
    ELSE Bind(FitOutcome(e, X[1], None, None, inp),
              LAMBDA fitted :
                  IF fitted.out[1] = "raised" THEN fitted
                  ELSE ScoresOfFitted(fitted.self, X, correct_loadings, inp))

\* The end of compute_reconstructed_data, after the saturated parameters
\* (computed) of rows samples: the intercept, the projection on the scores
\* and the mean function G_grad_fun.
ReconstructEnd(computed, rows) ==
    LET e1 == computed.self
        params == computed.self.exp_family_params
    IN  IF computed.out[1] = "raised" THEN computed
        ELSE IF e1.saturated_intercept_ # None
                /\ ~Broadcastable(Cols(computed.out[2]), Len(e1.saturated_intercept_[1]))
             THEN Outcome(e1, Raised("RuntimeError"))
        ELSE IF Lower(e1.family) \in NBFamilies /\ params = None
             THEN Outcome(e1, Raised("TypeError"))
        ELSE IF Lower(e1.family) \in NBFamilies
                /\ (params[1].r = None \/ params[1].gene_filter = None)
             THEN Outcome(e1, Raised("KeyError"))
        ELSE IF G_grad_fun(e1.family) = RaiseNotImplemented
             THEN Outcome(e1, Raised("NotImplementedError"))
        ELSE IF G_grad_fun(e1.family) = "None" THEN Outcome(e1, Raised("TypeError"))
        ELSE Outcome(e1, Returned(<<"X_reconstruct_view_", rows>>))

\* GLMPCA.compute_reconstructed_data(X, scores) for scores of as many rows
\* as X.
compute_reconstructed_data(e, X, inp) ==
    Bind(compute_saturated_params(e, X, FALSE, e.exp_family_params, FALSE, inp),
         LAMBDA computed : ReconstructEnd(computed, Len(X)))

\* The projection on the loadings that ends compute_projected_saturated_params
\* and project_low_rank, of the saturated parameters computed.
Projected(computed, name) ==
    IF computed.out[1] = "raised" THEN computed
    ELSE IF ProjectionError(computed.out[2], computed.self.saturated_loadings_) # "none"
         THEN Outcome(computed.self,
                      Raised(ProjectionError(computed.out[2],
                                             computed.self.saturated_loadings_)))
    ELSE Outcome(computed.self, Returned(<<name, Len(computed.out[2])>>))

\* GLMPCA.compute_projected_saturated_params(X, exp_family_params=arg).
compute_projected_saturated_params(e, X, arg, inp) ==
    Bind(compute_saturated_params(e, X, TRUE,
             IF arg # None THEN arg ELSE e.exp_family_params, FALSE, inp),
         LAMBDA computed : Projected(computed, "projected saturated parameters"))

\* GLMPCA.project_low_rank(X).
project_low_rank(e, X, inp) ==
    Bind(compute_saturated_params(e, X, TRUE, e.exp_family_params, FALSE, inp),
         LAMBDA computed : Projected(computed, "low-rank projection"))

\* The mean functions that read a nuisance parameter from params.
ReadingMeans ==
    {"G_grad_negative_binomial", "G_grad_negative_binomial_reparametrized",
     "G_grad_beta", "G_grad_beta_reparametrized", "G_grad_log_norm", "G_grad_gamma"}

\* The end of project_cell_view, after compute_projected_saturated_params
\* (projected): G_grad_fun(self.family) is called with the projection and
\* with the bound method self.exp_family_params_gpu as params, which the
\* mean functions that read params cannot index.
CellViewEnd(projected) ==
    IF projected.out[1] = "raised" THEN projected
    ELSE IF G_grad_fun(projected.self.family) = RaiseNotImplemented
         THEN Outcome(projected.self, Raised("NotImplementedError"))
    ELSE IF G_grad_fun(projected.self.family) = "None"
         THEN Outcome(projected.self, Raised("TypeError"))
    ELSE IF G_grad_fun(projected.self.family) \in ReadingMeans
         THEN Outcome(projected.self, Raised("TypeError"))
    ELSE Outcome(projected.self, Returned(<<"cell view", projected.out[2][2]>>))

\* GLMPCA.project_cell_view(X).
project_cell_view(e, X, inp) ==
    Bind(compute_projected_saturated_params(e, X, e.exp_family_params, inp),
         LAMBDA projected : CellViewEnd(projected))

\* Rows of a data set.
NumRows == 3

\* The value lists the data sets are cut from: counts, values with a NaN,
\* values with negative ones, and zeros and ones.
DataLists ==
    {<<Num(5 * Scale), Num(0), Num(0), Num(Scale)>>,
     <<NaN, Num(Scale), Num(Scale \div 2), Num(0)>>,
     <<Num(-2 * Scale), Num(-2 * Scale), Num(5 * Scale), Num(Scale \div 2)>>,
     <<Num(Scale), Num(0), Num(0), Num(Scale)>>}

\* The data sets: NumRows samples of MaxGenes features.
DataSets ==
    {[i \in 1..NumRows |-> [j \in 1..MaxGenes |-> list[((i + j - 2) % Len(list)) + 1]]] :
        list \in DataLists}

\* The saturated parameters a caller passes to compute_saturated_loadings.
GivenParams ==
    [i \in 1..NumRows |->
        [j \in 1..MaxGenes |-> IF (i + j) % 3 = 0 THEN Num(5 * Scale) ELSE Num(-2 * Scale)]]

\* The matrices the root-finding inverse links return: one of finite values
\* and one with a NaN.
SolvedSets ==
    {GivenParams,
     [i \in 1..NumRows |-> [j \in 1..MaxGenes |-> IF i = j THEN NaN ELSE Num(Scale)]]}

\* The coefficients r the dispersion of a data set gives: every feature
\* inside the bounds of the filter, or the last one on the lower bound.
RParamVectors ==
    {[j \in 1..MaxGenes |-> Num(5 * Scale)],
     [j \in 1..MaxGenes |-> IF j = MaxGenes THEN R_LOW ELSE Num(5 * Scale)]}

\* The mappings a caller passes as exp_family_params: for the negative
\* binomial families r with the first feature as gene filter, which is the
\* filter of r for one r and not for the other; for the reparametrised beta
\* family nu.
SuppliedParams(fam) ==
    IF Lower(fam) \in NBFamilies
    THEN {[EmptyParams EXCEPT !.r = Some(r),
                              !.gene_filter = Some(IF GeneFilter(r) = <<0>>
                                                   THEN GeneFilter(r) ELSE <<0>>)] :
              r \in RParamVectors}
    ELSE IF Lower(fam) \in {S_beta_reparam, S_beta_rep}
         THEN {[EmptyParams EXCEPT !.nu = Some(<<"nu", "caller">>)]}
    ELSE {}

AllSupplied == UNION {SuppliedParams(fam) : fam \in FamilyAliases}

\* What the data gives where the code estimates or solves: the coefficients
\* r, the parameter the fit of a distribution gives, and the matrix the
\* root-finding inverse links return.
DataInputs ==
    [r_est : RParamVectors, est : {<<"nu", "fitted">>}, out : SolvedSets]

\* The inputs that tell apart for an estimator of family fam: the others make
\* no difference to it.
Relevant(fam, inp) ==
    /\ Lower(fam) \notin NBFamilies => inp.r_est = [j \in 1..MaxGenes |-> Num(5 * Scale)]
    /\ g_invertfun(fam) # "g_invert_beta_reparametrized" => inp.out = GivenParams

\* The families the estimators are built for.
ParamFamilies ==
    {S_gaussian, S_poisson, S_bernoulli, S_continuous_bernoulli, S_nb, S_nb_rep,
     S_beta_rep, S_NA}

\* max_param of the estimators.
ParamBound == 1

\* No method has been called.
IdleCall ==
    /\ par_op = "none"
    /\ par_args = <<>>
    /\ par_out = <<"idle", "none">>

InitParams ==
    /\ n_pc = 1
    /\ family \in ParamFamilies
    /\ maxiter = 1
    /\ max_param = ParamBound
    /\ batch_size = 1
    /\ step_size = 1
    /\ gamma = <<1, 2>>
    /\ n_init = 1
    /\ n_jobs = 1
    /\ initial_learning_rate_ = <<2, 1>>
    /\ learning_rate_ = <<2, 1>>
    /\ EmptyFit
    /\ IdleCall

\* A caller's call of a method, with its outcome res.
Call(op, args, res) ==
    \E done \in {res} :
        /\ SetSelf(done.self)
        /\ par_op' = op
        /\ par_args' = args
        /\ par_out' = done.out
        /\ UNCHANGED notParams

\* compute_saturated_params(X, with_intercept, exp_family_params,
\* save_family_params) called directly; the mapping passed is None or the
\* stored one.
CallSaturatedParams(X, with_intercept, pass_stored, save_family_params, inp) ==
    /\ par_out[1] = "idle"
    /\ Relevant(family, inp)
    /\ \E me \in {Self} :
        Call("compute_saturated_params",
             [with_intercept |-> with_intercept, params |-> FALSE, saturated |-> FALSE,
              X |-> X, r_est |-> inp.r_est,
              passed |-> IF pass_stored THEN me.exp_family_params ELSE None],
             compute_saturated_params(me, X, with_intercept,
                 IF pass_stored THEN me.exp_family_params ELSE None,
                 save_family_params, inp))

\* compute_saturated_loadings(X, exp_family_params=arg, saturated_params=given).
CallSaturatedLoadings(X, arg, given, inp) ==
    /\ par_out[1] = "idle"
    /\ arg # None => arg[1] \in SuppliedParams(family)
    /\ Relevant(family, inp)
    /\ \E me \in {Self} :
        Call("compute_saturated_loadings",
             [with_intercept |-> FALSE, params |-> arg # None, saturated |-> given # None],
             FitOutcome(me, X, arg, given, inp))

\* compute_saturated_orthogonal_scores(X, correct_loadings), without X on an
\* estimator with loadings only.
CallOrthogonalScores(X, correct_loadings, inp) ==
    /\ par_out[1] = "idle"
    /\ X = None => saturated_loadings_ # None
    /\ Relevant(family, inp)
    /\ \E me \in {Self} :
        Call("compute_saturated_orthogonal_scores",
             [with_intercept |-> TRUE, params |-> FALSE, saturated |-> FALSE,
              correct_loadings |-> correct_loadings, with_data |-> X # None,
              had_loadings |-> me.saturated_loadings_ # None],
             compute_saturated_orthogonal_scores(me, X, correct_loadings, inp))

\* compute_reconstructed_data(X, scores).
CallReconstructedData(X, inp) ==
    /\ par_out[1] = "idle"
    /\ Relevant(family, inp)
    /\ \E me \in {Self} :
        Call("compute_reconstructed_data",
             [with_intercept |-> FALSE, params |-> FALSE, saturated |-> FALSE],
             compute_reconstructed_data(me, X, inp))

\* compute_projected_saturated_params(X).
CallProjectedParams(X, inp) ==
    /\ par_out[1] = "idle"
    /\ Relevant(family, inp)
    /\ \E me \in {Self} :
        Call("compute_projected_saturated_params",
             [with_intercept |-> TRUE, params |-> FALSE, saturated |-> FALSE],
             compute_projected_saturated_params(me, X, None, inp))

\* project_low_rank(X).
CallProjectLowRank(X, inp) ==
    /\ par_out[1] = "idle"
    /\ Relevant(family, inp)
    /\ \E me \in {Self} :
        Call("project_low_rank",
             [with_intercept |-> TRUE, params |-> FALSE, saturated |-> FALSE],
             project_low_rank(me, X, inp))

\* project_cell_view(X).
CallProjectCellView(X, inp) ==
    /\ par_out[1] = "idle"
    /\ Relevant(family, inp)
    /\ \E me \in {Self} :
        Call("project_cell_view",
             [with_intercept |-> TRUE, params |-> FALSE, saturated |-> FALSE,
              projected |-> compute_projected_saturated_params(
                                me, X, me.exp_family_params, inp).out[1]],
             project_cell_view(me, X, inp))

\* The caller's statement is over, with the value or with the error.
CallReturns ==
    /\ par_out[1] # "idle"
    /\ par_op' = "none"
    /\ par_args' = <<>>
    /\ par_out' = <<"idle", "none">>
    /\ UNCHANGED estVars
    /\ UNCHANGED notParams

NextParams ==
    \/ \E X \in DataSets, wi \in BOOLEAN, ps \in BOOLEAN, sv \in BOOLEAN,
          inp \in DataInputs : CallSaturatedParams(X, wi, ps, sv, inp)
    \/ \E X \in DataSets, arg \in {None} \cup {Some(q) : q \in AllSupplied},
          given \in {None, Some(GivenParams)}, inp \in DataInputs :
              CallSaturatedLoadings(X, arg, given, inp)
    \/ \E X \in {None} \cup {Some(M) : M \in DataSets}, c \in BOOLEAN,
          inp \in DataInputs : CallOrthogonalScores(X, c, inp)
    \/ \E X \in DataSets, inp \in DataInputs : CallReconstructedData(X, inp)
    \/ \E X \in DataSets, inp \in DataInputs : CallProjectedParams(X, inp)
    \/ \E X \in DataSets, inp \in DataInputs : CallProjectLowRank(X, inp)
    \/ \E X \in DataSets, inp \in DataInputs : CallProjectCellView(X, inp)
    \/ CallReturns


\* ------------------------------ SpecDevice: device copies of the mapping
\* The keys of a nuisance mapping.
DeviceKeys == {"r", "gene_filter", "nu", "n_jobs"}

\* A torch.Tensor on a device, and a Python int.
TensorOn(device) == <<"tensor", device>>

PyInt == <<"int", 1>>

\* type(v): the class of the value v.
TypeOf(v) == <<"class", v[1]>>

\* torch.Tensor(): a new, empty tensor, which is an instance and not a class.
NewEmptyTensor == TensorOn("cpu")

\* torch.device('cuda' if torch.cuda.is_available() else 'cpu').
ActiveDevice(cuda) == IF cuda THEN "cuda" ELSE "cpu"

\* The value a copy method gives for the entry v:
\* v.to(device) if type(v) is torch.Tensor() else v.
CopiedEntry(v, device) ==
    IF TypeOf(v) = NewEmptyTensor THEN TensorOn(device) ELSE v

\* exp_family_params_cpu and exp_family_params_gpu on the mapping stored:
\* None for None, a new mapping of the copied entries otherwise. An entry of
\* None stands for a key the mapping does not hold.
CopiedParams(stored, device) ==
    IF stored = None THEN None
    ELSE Some([k \in DeviceKeys |->
                  IF stored[1][k] = None THEN None
                  ELSE Some(CopiedEntry(stored[1][k][1], device))])

\* The mappings an estimator holds: tensors for r, gene_filter and nu, on
\* the devices there are, and an int for n_jobs.
DeviceParams(cuda) ==
    LET tensors == {None} \cup {Some(TensorOn(d)) : d \in {"cpu"} \cup
                                    (IF cuda THEN {"cuda"} ELSE {})}
    IN  {None} \cup
        {Some([r |-> r, gene_filter |-> gf, nu |-> nu, n_jobs |-> jobs]) :
            r \in tensors, gf \in tensors, nu \in tensors, jobs \in {None, Some(PyInt)}}

\* No copy method is called on any mapping.
IdleDevice ==
    /\ dev_cuda = FALSE
    /\ dev_stored = None
    /\ dev_op = "none"
    /\ dev_out = None

InitDevice ==
    /\ dev_cuda \in BOOLEAN
    /\ dev_stored = None
    /\ dev_op = "none"
    /\ dev_out = None

\* The estimator comes to hold the mapping params.
StoreParams(params) ==
    /\ params \in DeviceParams(dev_cuda)
    /\ dev_stored' = params
    /\ dev_op' = "none"
    /\ dev_out' = None
    /\ UNCHANGED dev_cuda
    /\ UNCHANGED notDevice

\* GLMPCA.exp_family_params_cpu().
exp_family_params_cpu ==
    /\ dev_op' = "exp_family_params_cpu"
    /\ dev_out' = CopiedParams(dev_stored, "cpu")
    /\ UNCHANGED <<dev_cuda, dev_stored>>
    /\ UNCHANGED notDevice

\* GLMPCA.exp_family_params_gpu().
exp_family_params_gpu ==
    /\ dev_op' = "exp_family_params_gpu"
    /\ dev_out' = CopiedParams(dev_stored, ActiveDevice(dev_cuda))
    /\ UNCHANGED <<dev_cuda, dev_stored>>
    /\ UNCHANGED notDevice

NextDevice ==
    \/ \E params \in DeviceParams(TRUE) : StoreParams(params)
    \/ exp_family_params_cpu
    \/ exp_family_params_gpu


\* --------------------------------- SpecClone: an estimator and its clone
\* The families of the estimators that are cloned.
CloneFamilies == {S_gaussian, S_nb, S_beta_rep}

\* The data the estimators are fitted to: the counts.
CloneData == {X \in DataSets : X[1][1] = Num(5 * Scale)}

\* What that data gives: either vector of coefficients r.
CloneInputs == {inp \in DataInputs : inp.out = GivenParams}

\* The n_jobs a caller passes to compute_saturated_params (0: left out).
JobsOverrides == {0, 2}

\* The clone as clone_empty_GLMPCA returns it: __init__ creates no saturated
\* parameters and empty logs.
NewClone(e) ==
    ClonedInstance(e) @@ [saturated_param_ |-> None,
                          loadings_learning_scores_ |-> <<>>,
                          loadings_learning_rates_ |-> <<>>]

\* There is no clone.
IdleClone ==
    /\ clone_inst = None
    /\ clone_shares = FALSE
    /\ clone_actor = "none"
    /\ clone_out = <<"idle", "none">>

InitClone ==
    /\ n_pc = 1
    /\ family \in CloneFamilies
    /\ maxiter = 1
    /\ max_param = ParamBound
    /\ batch_size = 1
    /\ step_size = 1
    /\ gamma = <<1, 2>>
    /\ n_init = 1
    /\ n_jobs = 1
    /\ initial_learning_rate_ = <<2, 1>>
    /\ learning_rate_ = <<2, 1>>
    /\ EmptyFit
    /\ IdleClone

\* The instance a caller names.
Instance(who) == IF who = "original" THEN Self ELSE clone_inst[1]

\* The nuisance mapping the other instance reads after a call left the
\* instance called as e: the mapping of e when both hold one object and the
\* call wrote into it, its own otherwise. rebound: the call made the
\* instance hold another object.
SeenBy(other, e, rebound) ==
    IF clone_shares /\ ~rebound
    THEN [other EXCEPT !.exp_family_params = e.exp_family_params]
    ELSE other

\* A call of a method on the instance who, with its outcome res.
CloneCall(who, res, rebound) ==
    \E done \in {res} :
        /\ IF who = "original"
           THEN /\ SetSelf(done.self)
                /\ clone_inst' = IF clone_inst = None THEN None
                                 ELSE Some(SeenBy(clone_inst[1], done.self, rebound))
           ELSE /\ clone_inst' = Some(done.self)
                /\ SetSelf(SeenBy(Self, done.self, rebound))
        /\ clone_shares' = (clone_shares /\ ~rebound)
        /\ clone_actor' = who
        /\ clone_out' = done.out
        /\ UNCHANGED notClone

\* clone_empty_GLMPCA() on the original: the clone holds copies of the
\* intercepts and the nuisance mapping of the original itself.
MakeClone ==
    /\ clone_inst = None
    /\ IF saturated_intercept_ = None \/ reconstruction_intercept_ = None
       THEN /\ clone_out' = Raised("AttributeError")
            /\ UNCHANGED <<clone_inst, clone_shares>>
       ELSE /\ clone_inst' = Some(NewClone(Self))
            /\ clone_shares' = (exp_family_params # None)
            /\ clone_out' = Returned("clone")
    /\ clone_actor' = "original"
    /\ UNCHANGED estVars
    /\ UNCHANGED notClone

\* compute_saturated_loadings(X, exp_family_params=arg) on the instance who.
CloneFit(who, X, arg, inp) ==
    /\ who = "clone" => clone_inst # None
    /\ arg # None => arg[1] \in SuppliedParams(family)
    /\ Relevant(family, inp)
    /\ CloneCall(who, FitOutcome(Instance(who), X, arg, None, inp), arg # None)

\* compute_saturated_params(X, with_intercept=False, save_family_params,
\* n_jobs=nj) on estimator e: n_jobs is self.n_jobs when it is left out.
SaturatedParamsWithJobs(e, X, save_family_params, nj, inp) ==
    Bind(compute_saturated_params(IF nj = 0 THEN e ELSE [e EXCEPT !.n_jobs = nj],
                                  X, FALSE, None, save_family_params, inp),
         LAMBDA done : Outcome([done.self EXCEPT !.n_jobs = e.n_jobs], done.out))

\* compute_saturated_params(X, save_family_params, n_jobs) on the instance who.
CloneSaturatedParams(who, X, save_family_params, nj, inp) ==
    /\ who = "clone" => clone_inst # None
    /\ Relevant(family, inp)
    /\ CloneCall(who, SaturatedParamsWithJobs(Instance(who), X, save_family_params,
                                              nj, inp), FALSE)

\* compute_saturated_orthogonal_scores(correct_loadings) on the instance who,
\* which has loadings.
CloneScores(who, correct_loadings, inp) ==
    /\ who = "clone" => clone_inst # None
    /\ Instance(who).saturated_loadings_ # None
    /\ Relevant(family, inp)
    /\ CloneCall(who, compute_saturated_orthogonal_scores(Instance(who), None,
                                                          correct_loadings, inp), FALSE)

NextClone ==
    \/ MakeClone
    \/ \E who \in {"original", "clone"}, X \in CloneData,
          arg \in {None} \cup {Some(q) : q \in AllSupplied}, inp \in CloneInputs :
              CloneFit(who, X, arg, inp)
    \/ \E who \in {"original", "clone"}, X \in CloneData, sv \in BOOLEAN,
          nj \in JobsOverrides, inp \in CloneInputs :
              CloneSaturatedParams(who, X, sv, nj, inp)
    \/ \E who \in {"original", "clone"}, c \in BOOLEAN, inp \in CloneInputs :
          CloneScores(who, c, inp)
\* ------------------------------------------------------------ specifications
vars == <<estVars, fitVars, famVars, storeVars, fltVars, parVars, devVars, cloneVars>>

\* An estimator no operation of the specification touches.
IdleEstimator ==
    /\ n_pc = 1
    /\ family = S_gaussian
    /\ maxiter = 1
    /\ max_param = 10
    /\ batch_size = 1
    /\ step_size = 1
    /\ gamma = <<1, 2>>
    /\ n_init = 1
    /\ n_jobs = 1
    /\ initial_learning_rate_ = <<2, 1>>
    /\ learning_rate_ = <<2, 1>>
    /\ EmptyFit

\* No vector of coefficients is being filtered.
IdleFilter == flt_r = <<>> /\ flt_filter = None

InitSpecFam == InitFam /\ IdleEstimator /\ IdleFit /\ EmptyFolder /\ IdleFilter /\ IdleCall /\ IdleDevice /\ IdleClone

SpecFam == InitSpecFam /\ [][NextFam]_vars

InitSpecFit == InitFit /\ InitFam /\ EmptyFolder /\ IdleFilter /\ IdleCall /\ IdleDevice /\ IdleClone

SpecFit == InitSpecFit /\ [][NextFit]_vars

InitSpecRestarts ==
    InitRestarts /\ InitFam /\ EmptyFolder /\ IdleFilter /\ IdleCall /\ IdleDevice /\ IdleClone

SpecRestarts == InitSpecRestarts /\ [][NextRestarts]_vars

InitSpecStore == InitStore /\ IdleFit /\ InitFam /\ IdleFilter /\ IdleCall /\ IdleDevice /\ IdleClone

InitSpecFilter == InitFilter /\ IdleEstimator /\ IdleFit /\ InitFam /\ EmptyFolder /\ IdleCall /\ IdleDevice /\ IdleClone

SpecFilter == InitSpecFilter /\ [][NextFilter]_vars

InitSpecParams == InitParams /\ IdleFit /\ InitFam /\ EmptyFolder /\ IdleFilter /\ IdleDevice /\ IdleClone

SpecParams == InitSpecParams /\ [][NextParams]_vars

SpecStore == InitSpecStore /\ [][NextStore]_vars

InitSpecDevice ==
    InitDevice /\ IdleEstimator /\ IdleFit /\ InitFam /\ EmptyFolder /\ IdleFilter /\ IdleCall /\ IdleClone

SpecDevice == InitSpecDevice /\ [][NextDevice]_vars

InitSpecClone ==
    InitClone /\ IdleFit /\ InitFam /\ EmptyFolder /\ IdleFilter /\ IdleCall /\ IdleDevice

SpecClone == InitSpecClone /\ [][NextClone]_vars

\* A running interpreter goes on: every step of a fit that was called is
\* taken. Whether a caller calls is left open.
FairFit == SpecFit /\ WF_vars(FitStep)

\* -------------------------------------------------------------------- claims
\* A rate under LEARNING_RATE_LIMIT, read off the fraction.
UnderLimit(rate) == rate[1] < rate[2]

\* gamma shrinks a positive rate: gamma < 1.
GammaShrinks == gamma[1] < gamma[2]

\* The running epoch has recorded its last mini-batch and that cost is
\* infinite or NaN.
DivergedEpoch ==
    /\ fit_pc = "train"
    /\ idx < maxiter
    /\ batch_no = NumBatches
    /\ Last(Last(loadings_learning_scores_)) \in {"inf", "nan"}

\* C1 (divergence recovery): an epoch that ends with an infinite or NaN last
\* cost multiplies the base learning rate by gamma (to +inf where the float
\* product overflows) and restarts the fit at _saturated_loading_iter's head; the fit raises only with the rate under
\* the limit; and a call that returns after such a restart with a shrinking
\* gamma has stored loadings, ends its score log with a finite cost and has
\* recorded a learning rate below the configured one.
C1_DivergenceRecovery ==
    /\ [][DivergedEpoch =>
            /\ IF learning_rate_[1] * gamma[1]
                     > RateOverflow * learning_rate_[2] * gamma[2]
               THEN learning_rate_' = RateInf
               ELSE learning_rate_'[1] * learning_rate_[2] * gamma[2]
                      = learning_rate_[1] * gamma[1] * learning_rate_'[2]
            /\ fit_pc' = "iter"
            /\ restarted']_vars
    /\ [](fit_pc = "raised" => UnderLimit(learning_rate_))
    /\ []((fit_pc = "returned" /\ restarted /\ GammaShrinks) =>
            /\ saturated_loadings_ # None
            /\ Last(Last(loadings_learning_scores_)) = "finite"
            /\ \E i \in 1..Len(Last(loadings_learning_rates_)) :
                   LET r == Last(loadings_learning_rates_)[i]
                   IN r[1] * initial_learning_rate_[2]
                        < initial_learning_rate_[1] * r[2])

C1_Witness == fit_pc = "returned" /\ restarted /\ gamma = <<1, 2>>

\* C2 (fatal underflow): with a configured rate under the limit a fit never
\* gets past the head of _saturated_loading_iter: no log sequence is opened,
\* no step is taken, no loadings are stored and the call raises; a fit whose
\* configured rate is the limit or above raises only after a divergence
\* restart, never at the first test.
C2_FatalUnderflow ==
    /\ UnderLimit(initial_learning_rate_) =>
         /\ fit_pc \in {"idle", "iter", "raised"}
         /\ loadings_learning_scores_ = <<>>
         /\ loadings_learning_rates_ = <<>>
         /\ saturated_loadings_ = None
         /\ ~restarted
    /\ (fit_pc = "raised" /\ ~restarted) => UnderLimit(initial_learning_rate_)

C2_Witness == fit_pc = "raised" /\ UnderLimit(initial_learning_rate_)

Terminated == fit_pc \in {"returned", "raised"}

UnsupportedRequest ==
    \/ fam_disp \in {"G_grad_fun", "g_invertfun"} /\ fam_family = S_multinomial
    \/ fam_disp \in {"expt_term", "g_invertfun"} /\ fam_family = S_beta

C8_CaseInsensitive ==
    (/\ fam_disp \in {"expt_term", "G_fun", "G_grad_fun", "g_invertfun", "h_fun"}
     /\ Lower(fam_family) \in FamilyAliases) =>
        IF Dispatch(fam_disp, Lower(fam_family)) = RaiseNotImplemented
        THEN fam_obj = "unset" /\ fam_err = "NotImplementedError"
        ELSE fam_obj = Dispatch(fam_disp, Lower(fam_family))


\* The hyperparameters of GLMPCA.__init__, by the field that holds each.
Hyperparameters ==
    {"n_pc", "family", "maxiter", "max_param", "learning_rate_",
     "initial_learning_rate_", "batch_size", "step_size", "gamma", "n_init",
     "n_jobs"}

\* The estimator saved last was fitted.
SavedFitted == saved # None /\ saved[1].saturated_loadings_ # None

\* C6: the instance load returns from the folder a fitted estimator was saved
\* to has every hyperparameter of that estimator (n_pc, family, maxiter,
\* max_param, learning rate, batch_size, step_size, gamma, n_init, n_jobs) and
\* its loadings and intercept.
C6_RoundTrip ==
    (loaded # None /\ SavedFitted) =>
        /\ \A h \in Hyperparameters : loaded[1][h] = saved[1][h]
        /\ loaded[1].saturated_loadings_ = saved[1].saturated_loadings_
        /\ loaded[1].saturated_intercept_ = saved[1].saturated_intercept_
        /\ loaded[1].reconstruction_intercept_ = saved[1].reconstruction_intercept_

\* C9 as stated: after a save, whatever was saved to the folder before, an
\* optional file is in the folder only if its field was populated in the
\* estimator saved, and load sets a field exactly if it was populated.
C9_Original ==
    /\ saved # None =>
        \A a \in Artifacts : files[a] # None => saved[1][ArtifactField[a]] # None
    /\ (saved # None /\ loaded # None) =>
        \A a \in Artifacts :
            loaded[1][ArtifactField[a]] # None <=> saved[1][ArtifactField[a]] # None

\* The folder held, before the last save, no optional file whose field the
\* estimator saved lacks.
NoStaleFile ==
    \A a \in Artifacts :
        saved[1][ArtifactField[a]] = None => pre_files[a] = None

\* C9: after a save, an optional file is in the folder exactly if its field was
\* populated in the estimator saved or the file was there before the save,
\* and it holds the field's value in the first case and what it held before
\* in the second; load sets a field to what its file holds, so after a save
\* to a folder without stale files load sets a field exactly if it was
\* populated.
C9_FilesMirrorState ==
    /\ saved # None =>
        \A a \in Artifacts :
            /\ files[a] # None <=>
                   (saved[1][ArtifactField[a]] # None \/ pre_files[a] # None)
            /\ files[a] = IF saved[1][ArtifactField[a]] # None
                          THEN saved[1][ArtifactField[a]] ELSE pre_files[a]
    /\ (saved # None /\ loaded # None) =>
        /\ \A a \in Artifacts : loaded[1][ArtifactField[a]] = files[a]
        /\ NoStaleFile =>
            \A a \in Artifacts :
                loaded[1][ArtifactField[a]] # None <=> saved[1][ArtifactField[a]] # None

\* A load after a fitted estimator without scores was saved into a folder
\* that held the scores of an earlier save: the loaded instance has scores.
C9_Witness ==
    /\ loaded # None
    /\ saved[1].saturated_scores_ = None
    /\ saved[1].saturated_loadings_ # None
    /\ pre_files["saturated_scores__pt"] # None
    /\ loaded[1].saturated_scores_ # None

\* Feature i (0-based) of the vector r passes the filter: r[i] is a number
\* strictly between 0.01 and 10**4.
Passes(r, i) ==
    /\ r[i + 1][1] = "num"
    /\ r[i + 1][2] > 1
    /\ r[i + 1][2] < 10000 * Scale

\* C5: the gene filter built from r is the ascending list of the indices i in
\* [0, p) with 0.01 < r[i] < 10**4 and r[i] not NaN, and of no other.
C5_GeneFilter ==
    flt_filter # None =>
        /\ \A k \in 1..Len(flt_filter[1]) - 1 : flt_filter[1][k] < flt_filter[1][k + 1]
        /\ {flt_filter[1][k] : k \in 1..Len(flt_filter[1])}
               = {i \in 0..Len(flt_r) - 1 : Passes(flt_r, i)}

\* The filter of a vector whose first coefficient is 0.01 exactly and whose
\* last one is 0.02: the first feature is left out and the last one kept.
C5_Witness ==
    /\ flt_filter # None
    /\ Len(flt_r) = MaxGenes
    /\ flt_r[1] = R_LOW
    /\ flt_r[MaxGenes] = Num(2)
    /\ flt_filter[1][Len(flt_filter[1])] = MaxGenes - 1
    /\ flt_filter[1][1] # 0

\* |a| > max_param for an entry a: a NaN does not exceed.
Exceeds(a) ==
    \/ FGreater(a, Num(max_param * Scale))
    \/ FLess(a, Num(-max_param * Scale))

\* a is NaN, or a + b lies within [-bound, bound].
NaNOrWithin(a, b, bound) ==
    \/ IsNaN(a)
    \/ /\ FAdd(a, b)[1] = "num"
       /\ FAdd(a, b)[2] <= bound * Scale
       /\ FAdd(a, b)[2] >= -bound * Scale

\* compute_saturated_params has returned a matrix.
ParamsReturned ==
    par_op = "compute_saturated_params" /\ par_out[1] = "returned"

\* compute_saturated_loadings has returned.
FitReturned ==
    par_op = "compute_saturated_loadings" /\ par_out[1] = "returned"

\* C4 as stated: no entry of a matrix compute_saturated_params returns, with
\* or without intercept, and no entry of the saturated parameters that
\* compute_saturated_loadings computed and stored exceeds max_param in
\* absolute value.
C4_Original ==
    /\ ParamsReturned =>
        \A i \in 1..Len(par_out[2]) : \A j \in 1..Len(par_out[2][i]) :
            ~Exceeds(par_out[2][i][j])
    /\ (FitReturned /\ ~par_args.saturated) =>
        \A i \in 1..Len(saturated_param_[1]) : \A j \in 1..Len(saturated_param_[1][i]) :
            ~Exceeds(saturated_param_[1][i][j])

\* Entry j of the stored intercept as it is broadcast against a row.
InterceptAt(j) ==
    saturated_intercept_[1][IF Len(saturated_intercept_[1]) = 1 THEN 1 ELSE j]

\* C4: every entry of the matrix compute_saturated_params returns with
\* with_intercept=False is NaN or at most max_param in absolute value; with
\* with_intercept=True it is the entry plus the stored intercept that is; and
\* after a compute_saturated_loadings that computed the saturated parameters
\* itself, every stored entry plus the stored intercept is at most max_param
\* and every stored entry at most 2 * max_param in absolute value.
C4_ClippingBound ==
    /\ (ParamsReturned /\ ~par_args.with_intercept) =>
        \A i \in 1..Len(par_out[2]) : \A j \in 1..Len(par_out[2][i]) :
            NaNOrWithin(par_out[2][i][j], Num(0), max_param)
    /\ (ParamsReturned /\ par_args.with_intercept) =>
        \A i \in 1..Len(par_out[2]) : \A j \in 1..Len(par_out[2][i]) :
            NaNOrWithin(par_out[2][i][j], InterceptAt(j), max_param)
    /\ (FitReturned /\ ~par_args.saturated) =>
        \A i \in 1..Len(saturated_param_[1]) : \A j \in 1..Len(saturated_param_[1][i]) :
            /\ ~IsNaN(saturated_param_[1][i][j])
            /\ NaNOrWithin(saturated_param_[1][i][j], InterceptAt(j), max_param)
            /\ NaNOrWithin(saturated_param_[1][i][j], Num(0), 2 * max_param)

\* A compute_saturated_loadings that computed the saturated parameters itself
\* has returned and left a stored entry above max_param.
C4_Witness ==
    /\ FitReturned
    /\ ~par_args.saturated
    /\ \E i \in 1..Len(saturated_param_[1]) : \E j \in 1..Len(saturated_param_[1][i]) :
           Exceeds(saturated_param_[1][i][j])

\* The methods C10 names.
LaterCalls ==
    {"compute_saturated_orthogonal_scores", "compute_reconstructed_data",
     "compute_projected_saturated_params", "project_low_rank",
     "compute_saturated_loadings"}

\* C10: a call of one of these methods that passes no exp_family_params, on
\* an estimator that holds nuisance parameters, leaves every parameter the
\* estimator holds at its value.
C10_EstimateOnce ==
    [][(exp_family_params # None /\ par_op' \in LaterCalls /\ ~par_args'.params) =>
          \A key \in DOMAIN exp_family_params[1] :
              exp_family_params[1][key] # None =>
                  exp_family_params'[1][key] = exp_family_params[1][key]]_vars

\* The coefficients r the claim names for the call made: those of the mapping
\* passed when it holds r, the estimated ones otherwise.
NamedR ==
    IF par_args.passed # None /\ par_args.passed[1].r # None
    THEN par_args.passed[1].r[1] ELSE par_args.r_est

\* The gene filter the claim names for the call made.
NamedFilter ==
    IF par_args.passed # None /\ par_args.passed[1].r # None
    THEN par_args.passed[1].gene_filter[1] ELSE GeneFilter(par_args.r_est)

\* The inverse link of the family of the estimator at data x and dispersion r.
NamedLink(x, r) ==
    IF g_invertfun(family) = "g_invert_negative_binomial"
    THEN NBTerm(x, r) ELSE NBRepTerm(x, r)

\* C11: what compute_saturated_params returns without intercept for a
\* negative binomial family has one column per entry of the gene filter, and
\* its column j is the clipped inverse link of the data column gene_filter[j]
\* at the dispersion r[gene_filter[j]].
C11_FilteredLink ==
    (ParamsReturned /\ ~par_args.with_intercept /\ Lower(family) \in NBFamilies) =>
        /\ Cols(par_out[2]) = Len(NamedFilter)
        /\ \A i \in 1..Len(par_out[2]) : \A j \in 1..Len(NamedFilter) :
              par_out[2][i][j] =
                  FClip(NamedLink(par_args.X[i][NamedFilter[j] + 1],
                                  NamedR[NamedFilter[j] + 1]),
                        FNeg(ClipBound(Self)), ClipBound(Self))

\* C12: the estimator clone_empty_GLMPCA returns for a fitted estimator has
\* every hyperparameter of that estimator (n_pc, family, maxiter, max_param,
\* learning rate, batch_size, step_size, gamma, n_init, n_jobs), its two
\* intercepts and its nuisance parameters, and neither loadings nor scores.
C12_CloneShares ==
    (cloned # None /\ saturated_loadings_ # None) =>
        /\ cloned[1] = "returned"
        /\ \A h \in Hyperparameters : cloned[2][h] = Estimator[h]
        /\ cloned[2].saturated_intercept_ = saturated_intercept_
        /\ cloned[2].reconstruction_intercept_ = reconstruction_intercept_
        /\ cloned[2].exp_family_params = exp_family_params
        /\ cloned[2].saturated_loadings_ = None
        /\ cloned[2].saturated_scores_ = None

\* compute_saturated_orthogonal_scores has returned.
ScoresReturned ==
    par_op = "compute_saturated_orthogonal_scores" /\ par_out[1] = "returned"

\* C13: when compute_saturated_orthogonal_scores(X) returns, the loadings,
\* the two intercepts, the scores and the SVD triple are populated, and so is
\* the nuisance mapping when the estimator had no loadings; when it had
\* loadings the call refits neither the intercepts nor, with
\* correct_loadings=False, the loadings.
C13_ScoresLifecycle ==
    [][(par_op' = "compute_saturated_orthogonal_scores" /\ par_out'[1] = "returned") =>
          /\ saturated_loadings_' # None
          /\ saturated_intercept_' # None
          /\ reconstruction_intercept_' # None
          /\ saturated_scores_' # None
          /\ projected_orthogonal_scores_svd_' # None
          /\ saturated_loadings_ = None => exp_family_params' # None
          /\ saturated_loadings_ # None =>
                /\ saturated_intercept_' = saturated_intercept_
                /\ reconstruction_intercept_' = reconstruction_intercept_
                /\ ~par_args'.correct_loadings =>
                       saturated_loadings_' = saturated_loadings_]_vars

\* compute_saturated_orthogonal_scores(X) has returned on an estimator that
\* had no loadings, and now has them, with scores.
C13_Witness ==
    /\ ScoresReturned
    /\ ~par_args.had_loadings
    /\ saturated_loadings_ # None
    /\ saturated_scores_ # None

\* compute_saturated_orthogonal_scores(correct_loadings=True) was called
\* without data on an estimator with loadings whose stored saturated
\* parameters are finite, of as many columns as the loadings have rows, and
\* of at least n_pc rows and columns.
CorrectionCalled ==
    /\ par_op = "compute_saturated_orthogonal_scores"
    /\ par_args.correct_loadings
    /\ par_args.had_loadings
    /\ ~par_args.with_data
    /\ saturated_param_ # None
    /\ AllFinite(saturated_param_[1])
    /\ Cols(saturated_param_[1]) = saturated_loadings_[1][2]
    /\ n_pc <= Min(Len(saturated_param_[1]), Cols(saturated_param_[1]))

\* C14: such a call returns scores of n x n_pc entries, leaves loadings of
\* p x n_pc entries, sets sample_projection and stores n_pc singular values
\* as saturated_loadings_weights_.
C14_CorrectedLoadings ==
    CorrectionCalled =>
        /\ par_out = Returned(<<"U", Len(saturated_param_[1]), n_pc>>)
        /\ saturated_loadings_[1][2] = Cols(saturated_param_[1])
        /\ saturated_loadings_[1][3] = n_pc
        /\ sample_projection
        /\ saturated_loadings_weights_ = Some(<<"S", n_pc>>)

\* C16: for every family that has a mean function, project_cell_view(X)
\* returns that function's value whenever the projected saturated parameters
\* it is applied to can be computed.
C16_CellView ==
    (/\ par_op = "project_cell_view"
     /\ par_args.projected = "returned"
     /\ G_grad_fun(family) \notin {"None", RaiseNotImplemented}) =>
        par_out[1] = "returned"

\* The device the copy method called moves tensors to.
TargetDevice ==
    IF dev_op = "exp_family_params_cpu" THEN "cpu" ELSE ActiveDevice(dev_cuda)

\* C17: what exp_family_params_cpu or exp_family_params_gpu returns for a
\* stored mapping is a mapping of the same keys, in which every tensor is on
\* the CPU, respectively on the active accelerator when there is one, and
\* every other entry is the stored one.
C17_DeviceCopies ==
    (dev_op # "none" /\ dev_stored # None) =>
        /\ dev_out # None
        /\ \A k \in DeviceKeys :
              /\ dev_out[1][k] = None <=> dev_stored[1][k] = None
              /\ dev_stored[1][k] # None =>
                    dev_out[1][k][1] =
                        IF dev_stored[1][k][1][1] = "tensor"
                        THEN TensorOn(TargetDevice) ELSE dev_stored[1][k][1]

\* The names the first five branches of every dispatch function compare the
\* family with.
ExactBranches ==
    {S_bernoulli, S_continuous_bernoulli, S_poisson, S_gaussian, S_multinomial}

\* The names the later branches of dispatch function d look the lower-cased
\* family up in.
FoldedBranches(d) ==
    IF d = "h_fun"
    THEN NBFamilies \cup {S_log_normal, S_log_sp_normal, S_lognorm, S_gamma}
    ELSE IF d = "log_h_fun" THEN NBFamilies \cup {S_gamma}
    ELSE NBFamilies \cup {S_beta, S_beta_reparam, S_beta_rep, S_log_normal,
                          S_log_sp_normal, S_lognorm, S_gamma}

\* The request made names a family that no branch of the dispatch function
\* asked matches.
NoBranchMatches ==
    /\ fam_disp \in Dispatchers
    /\ fam_family \notin ExactBranches
    /\ Lower(fam_family) \notin FoldedBranches(fam_disp)

\* C18: a request with a family that matches no branch raises nothing and
\* hands back None; the error, a TypeError, comes when the caller calls what
\* it was handed.
C18_FallsThrough ==
    NoBranchMatches =>
        /\ fam_obj = "None"
        /\ \/ fam_pc = "requested" /\ fam_err = "none"
           \/ fam_pc = "raised" /\ fam_err = "TypeError"

\* h_fun was asked for 'beta', for which it has no branch, and the call of
\* the None it handed back raised.
C18_Witness ==
    /\ fam_disp = "h_fun"
    /\ fam_family = S_beta
    /\ fam_obj = "None"
    /\ fam_pc = "raised"
    /\ fam_err = "TypeError"

\* The call of compute_saturated_loadings is over and the rate never fell
\* under the limit.
FitOver == fit_pc \in {"returned", "TypeError"}

\* The restart whose loadings and intercept are stored.
StoredRestart == saturated_loadings_[1].restart

\* C19: when n_init > 1, a call of compute_saturated_loadings that does not
\* end on the rate limit has run exactly n_init restarts one after another and
\* stores the loadings and the intercept of the restart whose evaluation-mode
\* likelihood is the lowest of the n_init values, the first such restart on
\* ties; when n_init = 1 one fit is run and no likelihood is computed.
C19_RestartSelection ==
    FitOver =>
        /\ fit_pc = "returned"
        /\ saturated_loadings_ # None
        /\ saturated_intercept_ = Some([restart |-> StoredRestart])
        /\ IF n_init = 1
           THEN /\ init_results = <<>>
                /\ StoredRestart = 1
                /\ Len(loadings_learning_scores_) = 1
           ELSE /\ init_no = n_init
                /\ Len(init_results) = n_init
                /\ \A k \in 1..n_init : init_results[k].restart = k
                /\ StoredRestart \in 1..n_init
                /\ \A k \in 1..n_init :
                       init_results[StoredRestart].lik <= init_results[k].lik
                /\ \A k \in 1..(StoredRestart - 1) :
                       init_results[k].lik > init_results[StoredRestart].lik

\* The entries of one sequence of a log: one per mini-batch of every epoch.
StepsPerAttempt == maxiter * NumBatches

\* C20: after a call of compute_saturated_loadings that returned, both logs
\* hold exactly n_init sequences, none of an earlier call or of a diverged
\* attempt, and every sequence has maxiter * ceil(n / batch_size) entries,
\* as many in one log as in the other.
C20_DiagnosticLogs ==
    fit_pc = "returned" =>
        /\ Len(loadings_learning_scores_) = n_init
        /\ Len(loadings_learning_rates_) = n_init
        /\ \A k \in 1..n_init :
               /\ Len(loadings_learning_scores_[k]) = StepsPerAttempt
               /\ Len(loadings_learning_rates_[k]) = StepsPerAttempt
               /\ ~Diverged(Last(loadings_learning_scores_[k]))

\* Three restarts returned after an attempt diverged, on batches of one row.
C20_Witness ==
    /\ fit_pc = "returned"
    /\ n_init = 3
    /\ restarted
    /\ NumBatches = 2
    /\ Len(loadings_learning_scores_) = 3

\* A restart of a call with several restarts is over and the next one is
\* about to start.
NextRestartStarts == n_init > 1 /\ init_no' = init_no + 1 /\ fit_pc' = "iter"

\* C21: with n_init > 1 every restart starts its optimiser at
\* initial_learning_rate_, whatever a divergence did to the rate inside an
\* earlier restart of the call, and once the call has returned learning_rate_
\* is initial_learning_rate_.
C21_RestartIndependence ==
    /\ [][NextRestartStarts => learning_rate_' = initial_learning_rate_]_vars
    /\ []((fit_pc = "returned" /\ n_init > 1) =>
              learning_rate_ = initial_learning_rate_)

\* What a call on one instance must leave as it is on the other: the
\* intercepts, the nuisance mapping, the loadings and the rate.
Watched(e) ==
    <<e.saturated_intercept_, e.reconstruction_intercept_, e.exp_family_params,
      e.saturated_loadings_, e.learning_rate_>>

\* C22: whatever fits, compute_saturated_params calls and score computations
\* are made on an estimator and on its clone, in whatever order, a call on
\* the clone leaves the intercepts, the nuisance mapping, the loadings and
\* the rate of the original as they were, and a call on the original leaves
\* those of the clone as they were.
C22_CloneIndependence ==
    [][/\ clone_actor' = "clone" => Watched(Self)' = Watched(Self)
       /\ (clone_actor' = "original" /\ clone_inst # None) =>
              /\ clone_inst' # None
              /\ Watched(clone_inst'[1]) = Watched(clone_inst[1])]_vars
====
